---- MODULE Spec2Model ----
(***************************************************************************)
(* In-memory resource storage of the sample aggregated API server: one     *)
(* table (map name -> *Gadget / *Widget) guarded by a sync.RWMutex, with a *)
(* per-table version counter, and the REST adapter on top of it.           *)
(*                                                                         *)
(* Go pointers are modelled by a heap: a location holds one struct value,  *)
(* the table maps a name to a location, and every worker (one goroutine    *)
(* serving one request at a time) holds the locations of the object it     *)
(* passed in and of the object it got back.                                *)
(***************************************************************************)
EXTENDS Integers, Sequences, FiniteSets, Bags, TLC

\* ---------------------------------------------------------------- bounds
\* Largest value the version counter may reach (writes stop there).
MaxVersion == 3
\* Number of UUIDs the generator may hand out.
MaxUUID == 2
\* Readings of the wall clock.
MaxTime == 1
\* Creates each worker issues in the concurrent-creates scenario.
CreatesPerWorker == 2
\* REST Updates each worker issues in the concurrent-updates scenario.
UpdatesPerWorker == 1
\* Deletes each worker issues in the concurrent-deletes scenario.
DeletesPerWorker == 1

\* ---------------------------------------------------------------- inputs
Workers == {"w1", "w2"}
CallerNames == {"a", "b"}
Kinds == {"Gadget", "Widget"}
Times == 1..MaxTime
NoWorker == "none"
Nil == <<"nil", "">>

ArgLoc(w) == <<"arg", w>>
OutLoc(w) == <<"out", w>>
SlotLoc(n) == <<"slot", n>>

\* The objects callers send: a plain one, as the tests build them, and one
\* that carries values in every server-managed field.
Payload(n, forged) ==
    IF forged
    THEN [Name |-> n, Namespace |-> "other", UID |-> "forged-uid",
          CreationTimestamp |-> 0 - 1, ResourceVersion |-> "999",
          Spec |-> "v2.0", Status |-> "Pending", TypeMeta |-> "Bogus"]
    ELSE [Name |-> n, Namespace |-> "default", UID |-> "",
          CreationTimestamp |-> 0, ResourceVersion |-> "",
          Spec |-> "v1.0", Status |-> "", TypeMeta |-> ""]

\* What a caller writes into an object it holds.
MutatedSpec == "written"

VARIABLES
    kind,            \* which of the two structurally identical tables this is
    gadgets,         \* map[string]*Gadget: name -> location
    versionCounter,  \* int64
    mu,              \* sync.RWMutex: the writer inside and the readers inside
    heap,            \* location -> struct value
    uuidCounter,     \* number of UUIDs uuid.NewUUID() has returned
    pc,              \* per worker: where it is
    top,             \* per worker: the operation the caller invoked
    name,            \* per worker: the name argument
    gadget,          \* per worker: the pointer passed to Create / Update
    existing,        \* per worker: Update's local `existing`
    ret,             \* per worker: the values the last call made has returned
    input,           \* history: the payload as the caller passed it
    lastRet,         \* history: name -> entity returned by the last successful
                     \*          Create/Update, dropped by a successful Delete
    gone,            \* history: the names whose last successful write was a Delete
    stamps,          \* history: resource versions stamped, in lock order
    creates,         \* history: number of successful Creates
    deletes,         \* history: number of successful Deletes
    issued,          \* per worker: the loop index of the concurrent-creates test
    wrote,           \* history: the operation after whose return the caller
                     \*          wrote into an object it held ("" when it did not)
    parked           \* the storage of the other kind, with the workers that are
                     \* in it: all of the above but the UUID generator

vars == <<kind, gadgets, versionCounter, mu, heap, uuidCounter, pc, top, name,
          gadget, existing, ret, input, lastRet, gone, stamps, creates, deletes,
          issued, wrote, parked>>

Table == <<kind, gadgets, versionCounter, uuidCounter>>

History == <<lastRet, gone, stamps, creates, deletes>>

\* ---------------------------------------------------------------- helpers
Range(f) == {f[x] : x \in DOMAIN f}

\* The history of returned entities: one more, one less
Recorded(f, k, v) == [x \in DOMAIN f \cup {k} |-> IF x = k THEN v ELSE f[x]]

Dropped(f, k) == [x \in DOMAIN f \ {k} |-> f[x]]

\* make(map[string]*Gadget)
EmptyMap == [x \in {} |-> Nil]

MapPut(f, k, v) == [x \in DOMAIN f \cup {k} |-> IF x = k THEN v ELSE f[x]]

\* a delete that empties the map
MapDeleteAll(f, k) == [x \in {} |-> f[x]]

\* delete(s.gadgets, name) left out
MapDeleteNothing(f, k) == f

\* delete(s.gadgets, name)
MapDelete(f, k) == [x \in DOMAIN f \ {k} |-> f[x]]

\* the lookup never finds anything
ExistsNever(table, n) == FALSE

\* the condition on the lookup, inverted
ExistsInverted(table, n) == n \notin DOMAIN table

\* _, exists := s.gadgets[name]
Exists(table, n) == n \in DOMAIN table

\* s.versionCounter++ left out
NextVersionStuck(v) == v

\* a counter that moves on by two
NextVersionSkip(v) == v + 2

\* s.versionCounter++
NextVersion(v) == v + 1

\* fmt.Sprintf("%d", n)
Sprintf(n) == ToString(n)

\* strconv.Atoi on the strings Sprintf produces
Atoi(s) == CHOOSE n \in 0..(MaxVersion + 2) : ToString(n) = s

\* uuid.NewUUID(): the k-th value the generator returns
NewUUID(k) == "uuid-" \o ToString(k)

\* a copy that forgets one field of the metadata
DeepCopyWithoutNamespace(g) ==
    [Name |-> g.Name, Namespace |-> "", UID |-> g.UID,
     CreationTimestamp |-> g.CreationTimestamp,
     ResourceVersion |-> g.ResourceVersion,
     Spec |-> g.Spec, Status |-> g.Status, TypeMeta |-> g.TypeMeta]

\* (g *Gadget) DeepCopyObject(): a new struct with every field copied
DeepCopyObject(g) ==
    [Name |-> g.Name, Namespace |-> g.Namespace, UID |-> g.UID,
     CreationTimestamp |-> g.CreationTimestamp,
     ResourceVersion |-> g.ResourceVersion,
     Spec |-> g.Spec, Status |-> g.Status, TypeMeta |-> g.TypeMeta]

\* errors.NewNotFound(...) in gadget.go, fmt.Errorf("widget %s not found") in
\* the widgets package
NoError == [typed |-> FALSE, what |-> "nil", name |-> ""]

\* the error of the other failure, pasted
NotFoundPastedError(k, n) ==
    [typed |-> FALSE, what |-> "already exists", name |-> n]

NotFoundError(k, n) ==
    [typed |-> (k = "Gadget"), what |-> "not found", name |-> n]

\* fmt.Errorf("gadget %s already exists", ...)
AlreadyExistsError(k, n) ==
    [typed |-> FALSE, what |-> "already exists", name |-> n]

CallbackError == [typed |-> FALSE, what |-> "callback", name |-> ""]

NoItems == EmptyBag

\* What a call returns: an object or a list, an error and, from the REST
\* adapter's Update and Delete, a bool (false where there is none)
Result(obj, err) == [obj |-> obj, items |-> NoItems, err |-> err, flag |-> FALSE]

NoResult == Result(Nil, NoError)

\* The value stored under a name
Stored(n) == heap[gadgets[n]]

\* The table as a reader sees it
TableView == [n \in DOMAIN gadgets |-> Stored(n)]

\* Garbage collection: a location nobody points to any more is gone
Free(h, locs, table) ==
    [l \in DOMAIN h \ (locs \ Range(table)) |-> h[l]]

\* ---------------------------------------------------------------- what the adapter returns
\* common.GroupName + "/" + common.APIVersion, and the kind
TypeMetaOf(k) == "things.myorg.io/v1alpha1 " \o k

\* gadget.TypeMeta = metav1.TypeMeta{...}
SetTypeMeta(p, k) == [p EXCEPT !.TypeMeta = TypeMetaOf(k)]

RESTOps == {"RESTGet", "RESTCreate", "RESTUpdate", "RESTDelete"}

\* return r.storage.Get(name)
RESTGetReturn(r) == Result(r.obj, r.err)

\* return r.storage.Create(gadget)
RESTCreateReturn(r) == Result(r.obj, r.err)

\* return nil, false, err
RESTFailure(err) == [Result(Nil, err) EXCEPT !.flag = FALSE]

\* return updatedGadget, false, err
RESTUpdateReturn(r) == [Result(r.obj, r.err) EXCEPT !.flag = FALSE]

\* the error of the Delete wrapped in one of the adapter's
RESTDeleteReturnWrapped(obj, err) ==
    [Result(obj, IF err = NoError THEN err
                 ELSE [err EXCEPT !.typed = FALSE, !.what = "delete failed"])
        EXCEPT !.flag = TRUE]

\* return obj, true, err
RESTDeleteReturn(obj, err) == [Result(obj, err) EXCEPT !.flag = TRUE]

\* ---------------------------------------------------------------- the lock
\* a reader that does not wait for the writer
CanRLockAlways(m) == TRUE

CanRLock(m) == m.writer = NoWorker

\* a lock that lets every writer in
CanLockAlways(m) == TRUE

\* a writer that takes the lock readers take
CanLockLikeReader(m) == m.writer = NoWorker

CanLock(m) == m.writer = NoWorker /\ m.readers = {}

\* ---------------------------------------------------------------- model bounds in guards
StampPending(w) ==
    \/ pc[w] \in {"Create.check", "Create.store", "Update.check", "Update.store"}
    \/ top[w] = "RESTUpdate" /\ pc[w] \in {"Get.body", "Get.RUnlock",
                                           "RESTUpdate.callback"}

UUIDNeed(w) ==
    IF pc[w] = "Create.check"
    THEN (IF heap[gadget[w]].Name = "" THEN 2 ELSE 1)
    ELSE IF pc[w] = "Create.store" THEN 1 ELSE 0

RECURSIVE SumOver(_, _)
SumOver(S, f) ==
    IF S = {} THEN 0
    ELSE LET x == CHOOSE y \in S : TRUE IN f[x] + SumOver(S \ {x}, f)

VersionRoom ==
    versionCounter + Cardinality({w \in Workers : StampPending(w)}) < MaxVersion

UUIDRoom(n) ==
    uuidCounter + SumOver(Workers, [w \in Workers |-> UUIDNeed(w)]) + n <= MaxUUID

\* ---------------------------------------------------------------- initial state
\* NewGadgetREST() / NewWidgetREST(): a storage of its own for each kind, no
\* request in it yet
NewStorage(k) ==
    [kind |-> k, gadgets |-> EmptyMap, versionCounter |-> 1,
     mu |-> [writer |-> NoWorker, readers |-> {}], heap |-> EmptyMap,
     pc |-> [w \in Workers |-> "idle"], top |-> [w \in Workers |-> "idle"],
     name |-> [w \in Workers |-> ""], gadget |-> [w \in Workers |-> Nil],
     existing |-> [w \in Workers |-> Nil], ret |-> [w \in Workers |-> NoResult],
     input |-> [w \in Workers |-> Nil], lastRet |-> EmptyMap, gone |-> {},
     stamps |-> <<>>, creates |-> 0, deletes |-> 0,
     issued |-> [w \in Workers |-> 0], wrote |-> [w \in Workers |-> ""]]

Init ==
    /\ kind \in Kinds
    /\ gadgets = EmptyMap
    /\ versionCounter = 1
    /\ mu = [writer |-> NoWorker, readers |-> {}]
    /\ heap = EmptyMap
    /\ uuidCounter = 0
    /\ pc = [w \in Workers |-> "idle"]
    /\ top = [w \in Workers |-> "idle"]
    /\ name = [w \in Workers |-> ""]
    /\ gadget = [w \in Workers |-> Nil]
    /\ existing = [w \in Workers |-> Nil]
    /\ ret = [w \in Workers |-> NoResult]
    /\ input = [w \in Workers |-> Nil]
    /\ lastRet = EmptyMap
    /\ gone = {}
    /\ stamps = <<>>
    /\ creates = 0
    /\ deletes = 0
    /\ issued = [w \in Workers |-> 0]
    /\ wrote = [w \in Workers |-> ""]
    /\ parked = NewStorage(CHOOSE k \in Kinds : k # kind)

\* ---------------------------------------------------------------- sync.RWMutex
\* a reader that takes the lock as a writer does, which RUnlock does not undo
RLockExclusive(w) ==
    /\ CanRLock(mu)
    /\ mu' = [mu EXCEPT !.writer = w]

\* s.mu.RLock(): blocks while a writer is inside
RLock(w) ==
    /\ CanRLock(mu)
    /\ mu' = [mu EXCEPT !.readers = @ \cup {w}]

\* s.mu.Lock(): blocks while anybody is inside
Lock(w) ==
    /\ CanLock(mu)
    /\ mu' = [mu EXCEPT !.writer = w]

\* What a caller may do with the objects it holds once a call has returned:
\* nothing, or write into one of them.
CallerWrites(h, locs) ==
    {h} \cup {[h EXCEPT ![l].Spec = MutatedSpec] : l \in locs \cap DOMAIN h}

\* The objects a caller may write into when its call has returned. A caller
\* of the storage has the object it passed in and the one it got back; what
\* the adapter returns goes to the framework, which encodes it.
Held(w) == IF top[w] \in RESTOps THEN {} ELSE {gadget[w], ret[w].obj}

\* The call returns: the caller has the objects it passed in and got back,
\* possibly writes into them, and lets go of them.
Return(w) ==
    /\ \E h \in CallerWrites(heap, Held(w)) :
        /\ heap' = Free(h, {ArgLoc(w), OutLoc(w)}, gadgets)
        /\ wrote' = [wrote EXCEPT ![w] = IF h # heap THEN top[w] ELSE ""]
    /\ pc' = [pc EXCEPT ![w] = "idle"]
    /\ top' = [top EXCEPT ![w] = "idle"]
    /\ name' = [name EXCEPT ![w] = ""]
    /\ gadget' = [gadget EXCEPT ![w] = Nil]
    /\ existing' = [existing EXCEPT ![w] = Nil]
    /\ ret' = [ret EXCEPT ![w] = NoResult]
    /\ input' = [input EXCEPT ![w] = Nil]

\* the error of the Get not looked at
AfterGetUnchecked(op, err) ==
    CASE op = "RESTUpdate" -> "RESTUpdate.callback"
      [] op = "RESTDelete" -> "RESTDelete.delete"
      [] OTHER -> "REST.return"

\* Where the adapter goes on when its r.storage.Get(name) has returned
AfterGet(op, err) ==
    CASE op = "RESTUpdate" /\ err = NoError -> "RESTUpdate.callback"
      [] op = "RESTDelete" /\ err = NoError -> "RESTDelete.delete"
      [] OTHER -> "REST.return"

\* deferred s.mu.RUnlock(); the storage returns to its caller, which is the
\* REST adapter when the adapter made the call
RUnlock(w) ==
    /\ pc[w] \in {"Get.RUnlock", "List.RUnlock"}
    /\ mu' = [mu EXCEPT !.readers = @ \ {w}]
    /\ IF top[w] \in RESTOps
       THEN /\ pc' = [pc EXCEPT ![w] = AfterGet(top[w], ret[w].err)]
            /\ ret' = [ret EXCEPT ![w] =
                         CASE top[w] = "RESTGet" -> RESTGetReturn(ret[w])
                           [] ret[w].err # NoError -> RESTFailure(ret[w].err)
                           [] OTHER -> ret[w]]
            /\ UNCHANGED <<heap, top, name, gadget, existing, input, wrote>>
       ELSE Return(w)
    /\ UNCHANGED <<parked, issued, Table, History>>

\* an Unlock written before each successful return instead of deferred: the
\* error returns leave the lock held
UnlockOnSuccessOnly(w) ==
    /\ pc[w] \in {"Create.Unlock", "Update.Unlock", "Delete.Unlock"}
    /\ mu' = IF ret[w].err = NoError THEN [mu EXCEPT !.writer = NoWorker] ELSE mu
    /\ IF top[w] \in RESTOps
       THEN /\ pc' = [pc EXCEPT ![w] = "REST.return"]
            /\ ret' = [ret EXCEPT ![w] =
                         CASE top[w] = "RESTCreate" -> RESTCreateReturn(ret[w])
                           [] top[w] = "RESTUpdate" -> RESTUpdateReturn(ret[w])
                           [] top[w] = "RESTDelete" ->
                                  RESTDeleteReturn(OutLoc(w), ret[w].err)]
            /\ UNCHANGED <<heap, top, name, gadget, existing, input, wrote>>
       ELSE Return(w)
    /\ UNCHANGED <<parked, issued, Table, History>>

\* deferred s.mu.Unlock(); the storage returns to its caller, which is the
\* REST adapter when the adapter made the call
Unlock(w) ==
    /\ pc[w] \in {"Create.Unlock", "Update.Unlock", "Delete.Unlock"}
    /\ mu' = [mu EXCEPT !.writer = NoWorker]
    /\ IF top[w] \in RESTOps
       THEN /\ pc' = [pc EXCEPT ![w] = "REST.return"]
            /\ ret' = [ret EXCEPT ![w] =
                         CASE top[w] = "RESTCreate" -> RESTCreateReturn(ret[w])
                           [] top[w] = "RESTUpdate" -> RESTUpdateReturn(ret[w])
                           [] top[w] = "RESTDelete" ->
                                  RESTDeleteReturn(OutLoc(w), ret[w].err)]
            /\ UNCHANGED <<heap, top, name, gadget, existing, input, wrote>>
       ELSE Return(w)
    /\ UNCHANGED <<parked, issued, Table, History>>

\* The adapter returns to the framework
RESTReturn(w) ==
    /\ pc[w] = "REST.return"
    /\ Return(w)
    /\ UNCHANGED <<parked, issued, Table, mu, History>>

\* ---------------------------------------------------------------- callers
\* A caller drops what it held when it invokes the next operation.
Invoke(w, op, n, first) ==
    /\ pc[w] = "idle"
    /\ top' = [top EXCEPT ![w] = op]
    /\ name' = [name EXCEPT ![w] = n]
    /\ pc' = [pc EXCEPT ![w] = first]
    /\ ret' = [ret EXCEPT ![w] = NoResult]
    /\ existing' = [existing EXCEPT ![w] = Nil]
    /\ wrote' = [wrote EXCEPT ![w] = ""]

WithObject(w, p) ==
    /\ heap' = MapPut(heap, ArgLoc(w), p)
    /\ gadget' = [gadget EXCEPT ![w] = ArgLoc(w)]
    /\ input' = [input EXCEPT ![w] = p]

WithoutObject(w) ==
    /\ gadget' = [gadget EXCEPT ![w] = Nil]
    /\ input' = [input EXCEPT ![w] = Nil]
    /\ UNCHANGED heap

CallGet(w) ==
    \E n \in CallerNames \cup DOMAIN gadgets :
        /\ Invoke(w, "Get", n, "Get.body")
        /\ RLock(w)
        /\ WithoutObject(w)
        /\ UNCHANGED <<parked, issued, Table, History>>

CallList(w) ==
    /\ Invoke(w, "List", "", "List.body")
    /\ RLock(w)
    /\ WithoutObject(w)
    /\ UNCHANGED <<parked, issued, Table, History>>

CallCreate(w) ==
    \E n \in CallerNames \cup {""}, forged \in BOOLEAN :
        /\ VersionRoom
        /\ UUIDRoom(IF n = "" THEN 2 ELSE 1)
        /\ Invoke(w, "Create", "", "Create.check")
        /\ Lock(w)
        /\ WithObject(w, Payload(n, forged))
        /\ UNCHANGED <<parked, issued, Table, History>>

CallUpdate(w) ==
    \E n \in CallerNames \cup DOMAIN gadgets, forged \in BOOLEAN :
        /\ VersionRoom
        /\ Invoke(w, "Update", "", "Update.check")
        /\ Lock(w)
        /\ WithObject(w, Payload(n, forged))
        /\ UNCHANGED <<parked, issued, Table, History>>

CallDelete(w) ==
    \E n \in CallerNames \cup DOMAIN gadgets :
        /\ Invoke(w, "Delete", n, "Delete.body")
        /\ Lock(w)
        /\ WithoutObject(w)
        /\ UNCHANGED <<parked, issued, Table, History>>

\* ---------------------------------------------------------------- Storage
\* Get, between RLock and RUnlock
Get(w) ==
    /\ pc[w] = "Get.body"
    /\ IF Exists(gadgets, name[w])
       THEN /\ heap' = MapPut(heap, OutLoc(w), DeepCopyObject(Stored(name[w])))
            /\ ret' = [ret EXCEPT ![w] = Result(OutLoc(w), NoError)]
       ELSE /\ ret' = [ret EXCEPT ![w] = Result(Nil, NotFoundError(kind, name[w]))]
            /\ UNCHANGED heap
    /\ pc' = [pc EXCEPT ![w] = "Get.RUnlock"]
    /\ UNCHANGED <<parked, issued, Table, mu, top, name, gadget, existing, input, History, wrote>>

\* Items made with a length instead of a capacity: as many zero values again
ListItemsAfterZeros(table, h) ==
    LET vals == {DeepCopyObject(h[table[n]]) : n \in DOMAIN table}
        zero == Payload("", FALSE)
    IN [v \in vals |-> Cardinality({n \in DOMAIN table : DeepCopyObject(h[table[n]]) = v})]
         (+) [v \in (IF vals = {} THEN {} ELSE {zero}) |-> Cardinality(DOMAIN table)]

\* list.Items after the loop over the map: one copied value per entry, in no
\* particular order
ListItems(table, h) ==
    LET vals == {DeepCopyObject(h[table[n]]) : n \in DOMAIN table}
    IN [v \in vals |-> Cardinality({n \in DOMAIN table : DeepCopyObject(h[table[n]]) = v})]

List(w) ==
    /\ pc[w] = "List.body"
    /\ ret' = [ret EXCEPT ![w] = [obj |-> Nil, items |-> ListItems(gadgets, heap),
                                  err |-> NoError, flag |-> FALSE]]
    /\ pc' = [pc EXCEPT ![w] = "List.RUnlock"]
    /\ UNCHANGED <<parked, issued, Table, mu, heap, top, name, gadget, existing, input, History, wrote>>

\* the empty name left as it is
GenerateNameLeftOut(n, k) == n

\* if gadget.Name == "" { gadget.Name = string(uuid.NewUUID()) }
GenerateName(n, k) == IF n = "" THEN NewUUID(k) ELSE n

\* Create, lines 131-137: generate a name if there is none, reject a duplicate
CreateCheck(w) ==
    LET g == gadget[w]
        generate == heap[g].Name = ""
        nm == GenerateName(heap[g].Name, uuidCounter + 1)
    IN /\ pc[w] = "Create.check"
       /\ uuidCounter' = IF generate THEN uuidCounter + 1 ELSE uuidCounter
       /\ heap' = [heap EXCEPT ![g].Name = nm]
       /\ IF Exists(gadgets, nm)
          THEN /\ ret' = [ret EXCEPT ![w] = Result(Nil, AlreadyExistsError(kind, nm))]
               /\ pc' = [pc EXCEPT ![w] = "Create.Unlock"]
          ELSE /\ pc' = [pc EXCEPT ![w] = "Create.store"]
               /\ UNCHANGED ret
       /\ UNCHANGED <<parked, issued, kind, gadgets, versionCounter, mu, top, name, gadget, existing,
                      input, History, wrote>>

\* a UID made from the name instead of drawn from the generator
CreateStampUIDOfName(g, now, version, uid) ==
    [g EXCEPT !.CreationTimestamp = now,
              !.ResourceVersion = Sprintf(version),
              !.UID = "uid-of-" \o g.Name,
              !.Status = "Active"]

\* Stamping that keeps what the payload already carries
CreateStampIfUnset(g, now, version, uid) ==
    [g EXCEPT !.CreationTimestamp = IF @ = 0 THEN now ELSE @,
              !.ResourceVersion = IF @ = "" THEN Sprintf(version) ELSE @,
              !.UID = IF @ = "" THEN uid ELSE @,
              !.Status = IF @ = "" THEN "Active" ELSE @]

\* The fields Create stamps (lines 139-144)
CreateStamp(g, now, version, uid) ==
    [g EXCEPT !.CreationTimestamp = now,
              !.ResourceVersion = Sprintf(version),
              !.UID = uid,
              !.Status = "Active"]

\* s.gadgets[gadget.Name] = gadget: the caller's object itself is stored
StoreWithoutCopy(table, h, n, g) ==
    [table |-> MapPut(table, n, g), heap |-> h]

\* the entry stored under namespace and name
StoreCopyNamespaced(table, h, n, g) ==
    LET key == h[g].Namespace \o "/" \o n
    IN [table |-> MapPut(table, key, SlotLoc(key)),
        heap |-> MapPut(h, SlotLoc(key), DeepCopyObject(h[g]))]

\* s.gadgets[gadget.Name] = gadget.DeepCopyObject().(*Gadget)
StoreCopy(table, h, n, g) ==
    [table |-> MapPut(table, n, SlotLoc(n)),
     heap |-> MapPut(h, SlotLoc(n), DeepCopyObject(h[g]))]

\* Create, lines 139-147
CreateStore(w) ==
    \E now \in Times :
        LET g == gadget[w]
            stamped == CreateStamp(heap[g], now, versionCounter, NewUUID(uuidCounter + 1))
            h1 == [heap EXCEPT ![g] = stamped]
            st == StoreCopy(gadgets, h1, stamped.Name, g)
        IN /\ pc[w] = "Create.store"
           /\ versionCounter' = NextVersion(versionCounter)
           /\ uuidCounter' = uuidCounter + 1
           /\ gadgets' = st.table
           /\ heap' = st.heap
           /\ ret' = [ret EXCEPT ![w] = Result(g, NoError)]
           /\ pc' = [pc EXCEPT ![w] = "Create.Unlock"]
           /\ lastRet' = Recorded(lastRet, stamped.Name, stamped)
           /\ gone' = gone \ {stamped.Name}
           /\ stamps' = Append(stamps, stamped.ResourceVersion)
           /\ creates' = creates + 1
           /\ UNCHANGED <<parked, issued, kind, mu, top, name, gadget, existing, input, deletes, wrote>>

\* Update that stores the payload as a new entry when the name is not there
UpdateCheckUpsert(w) ==
    LET nm == heap[gadget[w]].Name
    IN /\ pc[w] = "Update.check"
       /\ existing' = [existing EXCEPT ![w] =
                          IF Exists(gadgets, nm) THEN gadgets[nm] ELSE gadget[w]]
       /\ pc' = [pc EXCEPT ![w] = "Update.store"]
       /\ UNCHANGED <<parked, issued, Table, mu, heap, top, name, gadget, input, ret,
                      History, wrote>>

\* Update that rejects a payload whose resource version is not the stored one
UpdateCheckConflict(w) ==
    LET nm == heap[gadget[w]].Name
        rv == heap[gadget[w]].ResourceVersion
    IN /\ pc[w] = "Update.check"
       /\ IF Exists(gadgets, nm) /\ rv \in {"", Stored(nm).ResourceVersion}
          THEN /\ existing' = [existing EXCEPT ![w] = gadgets[nm]]
               /\ pc' = [pc EXCEPT ![w] = "Update.store"]
               /\ UNCHANGED ret
          ELSE /\ ret' = [ret EXCEPT ![w] = Result(Nil, [NotFoundError(kind, nm) EXCEPT
                                                  !.what = IF Exists(gadgets, nm)
                                                           THEN "conflict" ELSE @])]
               /\ pc' = [pc EXCEPT ![w] = "Update.Unlock"]
               /\ UNCHANGED existing
       /\ UNCHANGED <<parked, issued, Table, mu, heap, top, name, gadget, input, History, wrote>>

\* Update, lines 154-157
UpdateCheck(w) ==
    LET nm == heap[gadget[w]].Name
    IN /\ pc[w] = "Update.check"
       /\ IF Exists(gadgets, nm)
          THEN /\ existing' = [existing EXCEPT ![w] = gadgets[nm]]
               /\ pc' = [pc EXCEPT ![w] = "Update.store"]
               /\ UNCHANGED ret
          ELSE /\ ret' = [ret EXCEPT ![w] = Result(Nil, NotFoundError(kind, nm))]
               /\ pc' = [pc EXCEPT ![w] = "Update.Unlock"]
               /\ UNCHANGED existing
       /\ UNCHANGED <<parked, issued, Table, mu, heap, top, name, gadget, input, History, wrote>>

\* Update without the two lines that carry the identity over
UpdateStampVersionOnly(g, old, version) ==
    [g EXCEPT !.ResourceVersion = Sprintf(version)]

\* Update that carries the status over with the identity
UpdateStampKeepStatus(g, old, version) ==
    [g EXCEPT !.CreationTimestamp = old.CreationTimestamp,
              !.UID = old.UID,
              !.Status = old.Status,
              !.ResourceVersion = Sprintf(version)]

\* The fields Update stamps (lines 159-161)
UpdateStamp(g, old, version) ==
    [g EXCEPT !.CreationTimestamp = old.CreationTimestamp,
              !.UID = old.UID,
              !.ResourceVersion = Sprintf(version)]

\* Update, lines 159-165
UpdateStore(w) ==
    LET g == gadget[w]
        stamped == UpdateStamp(heap[g], heap[existing[w]], versionCounter)
        h1 == [heap EXCEPT ![g] = stamped]
        st == StoreCopy(gadgets, h1, stamped.Name, g)
    IN /\ pc[w] = "Update.store"
       /\ versionCounter' = NextVersion(versionCounter)
       /\ gadgets' = st.table
       /\ heap' = st.heap
       /\ ret' = [ret EXCEPT ![w] = Result(g, NoError)]
       /\ pc' = [pc EXCEPT ![w] = "Update.Unlock"]
       /\ lastRet' = Recorded(lastRet, stamped.Name, stamped)
       /\ stamps' = Append(stamps, stamped.ResourceVersion)
       /\ UNCHANGED <<parked, issued, kind, uuidCounter, mu, top, name, gadget, existing, input,
                      gone, creates, deletes, wrote>>

\* Delete, between Lock and Unlock
Delete(w) ==
    /\ pc[w] = "Delete.body"
    /\ IF Exists(gadgets, name[w])
       THEN /\ gadgets' = MapDelete(gadgets, name[w])
            /\ heap' = Free(heap, {gadgets[name[w]]}, MapDelete(gadgets, name[w]))
            /\ ret' = [ret EXCEPT ![w] = Result(Nil, NoError)]
            /\ lastRet' = Dropped(lastRet, name[w])
            /\ gone' = gone \cup {name[w]}
            /\ deletes' = deletes + 1
       ELSE /\ ret' = [ret EXCEPT ![w] = Result(Nil, NotFoundError(kind, name[w]))]
            /\ UNCHANGED <<gadgets, heap, lastRet, gone, deletes>>
    /\ pc' = [pc EXCEPT ![w] = "Delete.Unlock"]
    /\ UNCHANGED <<parked, issued, kind, versionCounter, uuidCounter, mu, top, name, gadget, existing,
                   input, stamps, creates, wrote>>

\* ---------------------------------------------------------------- REST adapter
\* Update starts with r.storage.Get(name)
CallRESTUpdate(w) ==
    \E n \in CallerNames \cup DOMAIN gadgets :
        /\ VersionRoom
        /\ Invoke(w, "RESTUpdate", n, "Get.body")
        /\ RLock(w)
        /\ WithoutObject(w)
        /\ UNCHANGED <<parked, issued, Table, History>>

\* Get is r.storage.Get(name)
CallRESTGet(w) ==
    \E n \in CallerNames \cup DOMAIN gadgets :
        /\ Invoke(w, "RESTGet", n, "Get.body")
        /\ RLock(w)
        /\ WithoutObject(w)
        /\ UNCHANGED <<parked, issued, Table, History>>

\* Create, lines 215-222: the type tag is set on the caller's object, then
\* r.storage.Create(gadget). The object is the one decoded from the request,
\* every field of which the client may have set.
CallRESTCreate(w) ==
    \E n \in CallerNames \cup {""} :
        /\ VersionRoom
        /\ UUIDRoom(IF n = "" THEN 2 ELSE 1)
        /\ Invoke(w, "RESTCreate", "", "Create.check")
        /\ Lock(w)
        /\ heap' = MapPut(heap, ArgLoc(w), SetTypeMeta(Payload(n, TRUE), kind))
        /\ gadget' = [gadget EXCEPT ![w] = ArgLoc(w)]
        /\ input' = [input EXCEPT ![w] = Payload(n, TRUE)]
        /\ UNCHANGED <<parked, issued, Table, History>>

\* Delete starts with r.storage.Get(name)
CallRESTDelete(w) ==
    \E n \in CallerNames \cup DOMAIN gadgets :
        /\ Invoke(w, "RESTDelete", n, "Get.body")
        /\ RLock(w)
        /\ WithoutObject(w)
        /\ UNCHANGED <<parked, issued, Table, History>>

\* Delete, line 250: err = r.storage.Delete(name), the object of the Get kept
RESTDeleteDelete(w) ==
    /\ pc[w] = "RESTDelete.delete"
    /\ Lock(w)
    /\ pc' = [pc EXCEPT ![w] = "Delete.body"]
    /\ UNCHANGED <<parked, issued, Table, heap, top, name, gadget, existing, ret, input,
                   History, wrote>>

\* What objInfo.UpdatedObject(ctx, oldObj) may hand back: any object, or the
\* old one with a new spec
UpdatedObjects(old) ==
    {Payload(n, TRUE) : n \in CallerNames} \cup {[old EXCEPT !.Spec = "v2.0"]}

\* the name the callback's result carries, kept
ForceNameLeftOut(p, n) == p

\* gadget.Name = name
ForceName(p, n) == [p EXCEPT !.Name = n]

\* Update, lines 233-239: the callback, then gadget.Name = name
RESTUpdateCallback(w) ==
    /\ pc[w] = "RESTUpdate.callback"
    /\ \/ \E p \in UpdatedObjects(heap[ret[w].obj]) :
            /\ heap' = MapPut(Free(heap, {OutLoc(w)}, gadgets), ArgLoc(w),
                              ForceName(p, name[w]))
            /\ gadget' = [gadget EXCEPT ![w] = ArgLoc(w)]
            /\ input' = [input EXCEPT ![w] = p]
            /\ ret' = [ret EXCEPT ![w] = NoResult]
            /\ Lock(w)
            /\ pc' = [pc EXCEPT ![w] = "Update.check"]
       \/ /\ heap' = Free(heap, {OutLoc(w)}, gadgets)
          /\ ret' = [ret EXCEPT ![w] = RESTFailure(CallbackError)]
          /\ pc' = [pc EXCEPT ![w] = "RESTUpdate.failed"]
          /\ UNCHANGED <<gadget, input, mu>>
    /\ UNCHANGED <<parked, issued, Table, top, name, existing, History, wrote>>

\* Update, line 235: return nil, false, err
RESTUpdateFailed(w) ==
    /\ pc[w] = "RESTUpdate.failed"
    /\ Return(w)
    /\ UNCHANGED <<parked, issued, Table, mu, History>>

\* ---------------------------------------------------------------- the storage and its callers
\* Callers of the storage itself, as the storage tests are.
Next ==
    \E w \in Workers :
        \/ CallGet(w)
        \/ CallList(w)
        \/ CallCreate(w)
        \/ CallUpdate(w)
        \/ CallDelete(w)
        \/ RUnlock(w)
        \/ Unlock(w)
        \/ Get(w)
        \/ List(w)
        \/ CreateCheck(w)
        \/ CreateStore(w)
        \/ UpdateCheck(w)
        \/ UpdateStore(w)
        \/ Delete(w)

Spec == Init /\ [][Next]_vars

\* ---------------------------------------------------------------- the REST adapter alone
\* Every request comes through the adapter, as the framework sends it.
NextREST ==
    \E w \in Workers :
        \/ CallRESTGet(w)
        \/ CallRESTCreate(w)
        \/ CallRESTUpdate(w)
        \/ CallRESTDelete(w)
        \/ RESTUpdateCallback(w)
        \/ RESTUpdateFailed(w)
        \/ RESTDeleteDelete(w)
        \/ RESTReturn(w)
        \/ RUnlock(w)
        \/ Unlock(w)
        \/ Get(w)
        \/ CreateCheck(w)
        \/ CreateStore(w)
        \/ UpdateCheck(w)
        \/ UpdateStore(w)
        \/ Delete(w)

SpecREST == Init /\ [][NextREST]_vars

\* ---------------------------------------------------------------- the two tables
\* installAPI makes one storage per kind; a request goes to the storage of
\* its resource. The variables above are the storage the next step is in,
\* parked is the other one.
ThisStorage ==
    [kind |-> kind, gadgets |-> gadgets, versionCounter |-> versionCounter,
     mu |-> mu, heap |-> heap, pc |-> pc, top |-> top, name |-> name,
     gadget |-> gadget, existing |-> existing, ret |-> ret, input |-> input,
     lastRet |-> lastRet, gone |-> gone, stamps |-> stamps, creates |-> creates,
     deletes |-> deletes, issued |-> issued, wrote |-> wrote]

\* one counter for the two storages
CounterOfBoth(storage, other) == other.versionCounter

\* versionCounter is a field of the storage
CounterOf(storage, other) == storage.versionCounter

\* The next step is in the other storage
Switch ==
    /\ parked' = ThisStorage
    /\ kind' = parked.kind
    /\ gadgets' = parked.gadgets
    /\ versionCounter' = CounterOf(parked, ThisStorage)
    /\ mu' = parked.mu
    /\ heap' = parked.heap
    /\ pc' = parked.pc
    /\ top' = parked.top
    /\ name' = parked.name
    /\ gadget' = parked.gadget
    /\ existing' = parked.existing
    /\ ret' = parked.ret
    /\ input' = parked.input
    /\ lastRet' = parked.lastRet
    /\ gone' = parked.gone
    /\ stamps' = parked.stamps
    /\ creates' = parked.creates
    /\ deletes' = parked.deletes
    /\ issued' = parked.issued
    /\ wrote' = parked.wrote
    /\ UNCHANGED uuidCounter

\* TestWidgetGadgetIntegration: the requests to a resource name one object
MainName == "a"

RequestCreate(w) == CallRESTCreate(w) /\ input'[w].Name = MainName

RequestGet(w) == CallRESTGet(w) /\ name'[w] = MainName

RequestUpdate(w) == CallRESTUpdate(w) /\ name'[w] = MainName

RequestDelete(w) == CallRESTDelete(w) /\ name'[w] = MainName

\* ListOptions.ResourceVersion of a watch request: unset, from the start, from
\* a version on
WatchOptions == {"", "0", "2"}

WatchError == [typed |-> FALSE, what |-> "watch not implemented", name |-> ""]

\* a stream of the events after the version asked for
WatchReturnFromVersion(options) ==
    IF options = "" THEN Result(Nil, WatchError) ELSE Result(<<"watch", options>>, NoError)

\* return nil, fmt.Errorf("watch not implemented")
WatchReturn(options) == Result(Nil, WatchError)

\* Watch: no call into the storage, no lock
CallRESTWatch(w) ==
    \E options \in WatchOptions :
        /\ pc[w] = "idle"
        /\ top' = [top EXCEPT ![w] = "RESTWatch"]
        /\ pc' = [pc EXCEPT ![w] = "REST.return"]
        /\ ret' = [ret EXCEPT ![w] = WatchReturn(options)]
        /\ name' = [name EXCEPT ![w] = ""]
        /\ existing' = [existing EXCEPT ![w] = Nil]
        /\ wrote' = [wrote EXCEPT ![w] = ""]
        /\ WithoutObject(w)
        /\ UNCHANGED <<parked, issued, Table, mu, History>>

\* Requests to the two resources, through their adapters
NextTables ==
    \/ Switch
    \/ \E w \in {"w1"} :
        \/ RequestCreate(w)
        \/ CallRESTWatch(w)
        \/ RequestGet(w)
        \/ RequestUpdate(w)
        \/ RequestDelete(w)
        \/ RESTUpdateCallback(w)
        \/ RESTUpdateFailed(w)
        \/ RESTDeleteDelete(w)
        \/ RESTReturn(w)
        \/ RUnlock(w)
        \/ Unlock(w)
        \/ Get(w)
        \/ CreateCheck(w)
        \/ CreateStore(w)
        \/ UpdateCheck(w)
        \/ UpdateStore(w)
        \/ Delete(w)

SpecTables == Init /\ [][NextTables]_vars

\* ---------------------------------------------------------------- List, statement by statement
\* List, lines 112-118: the empty list, made with the capacity of the map
ListMake(w) ==
    /\ pc[w] = "List.body"
    /\ ret' = [ret EXCEPT ![w] = [obj |-> Nil, items |-> NoItems,
                                  err |-> NoError, flag |-> FALSE]]
    /\ pc' = [pc EXCEPT ![w] = "List.loop"]
    /\ UNCHANGED <<parked, issued, Table, mu, heap, top, name, gadget, existing,
                   input, History, wrote>>

\* The keys a range over the map has still to produce: those of the map as it
\* is now that the loop has not been at
ListRest(w) == DOMAIN gadgets \ {v.Name : v \in BagToSet(ret[w].items)}

\* List, lines 120-124: one turn of the loop over the map, in the order the
\* runtime picks, or the end of the loop
ListAppend(w) ==
    /\ pc[w] = "List.loop"
    /\ IF ListRest(w) = {}
       THEN /\ pc' = [pc EXCEPT ![w] = "List.RUnlock"]
            /\ UNCHANGED ret
       ELSE /\ \E n \in ListRest(w) :
                 ret' = [ret EXCEPT ![w].items =
                            @ (+) SetToBag({DeepCopyObject(Stored(n))})]
            /\ UNCHANGED pc
    /\ UNCHANGED <<parked, issued, Table, mu, heap, top, name, gadget, existing,
                   input, History, wrote>>

\* Every operation of the storage, List going through its loop turn by turn
NextList ==
    \E w \in Workers :
        \/ CallGet(w)
        \/ Get(w)
        \/ CallList(w)
        \/ ListMake(w)
        \/ ListAppend(w)
        \/ RUnlock(w)
        \/ CallCreate(w)
        \/ CallUpdate(w)
        \/ CallDelete(w)
        \/ CreateCheck(w)
        \/ CreateStore(w)
        \/ UpdateCheck(w)
        \/ UpdateStore(w)
        \/ Delete(w)
        \/ Unlock(w)

SpecList == Init /\ [][NextList]_vars

\* ---------------------------------------------------------------- updates and resource versions
\* The resource versions a client may send: none, one the table has never
\* issued or issued long ago, any it may have issued, one far ahead
PayloadVersions == {""} \cup {Sprintf(v) : v \in 0..MaxVersion} \cup {"999"}

\* Create of the one object of the scenario
CallCreateMain(w) == CallCreate(w) /\ input'[w] = Payload(MainName, FALSE)

\* Storage.Update of it, with a payload that carries any resource version
CallUpdateVersioned(w) ==
    \E rv \in PayloadVersions :
        /\ VersionRoom
        /\ Invoke(w, "Update", "", "Update.check")
        /\ Lock(w)
        /\ WithObject(w, [Payload(MainName, FALSE) EXCEPT !.ResourceVersion = rv])
        /\ UNCHANGED <<parked, issued, Table, History>>

NextVersions ==
    \E w \in Workers :
        \/ CallCreateMain(w)
        \/ CallUpdateVersioned(w)
        \/ RequestUpdate(w)
        \/ RESTUpdateCallback(w)
        \/ RESTUpdateFailed(w)
        \/ RESTReturn(w)
        \/ RUnlock(w)
        \/ Unlock(w)
        \/ Get(w)
        \/ CreateCheck(w)
        \/ CreateStore(w)
        \/ UpdateCheck(w)
        \/ UpdateStore(w)

SpecVersions == Init /\ [][NextVersions]_vars

\* ---------------------------------------------------------------- concurrent updates
\* Every worker sends REST Updates of the one object, as the framework does
\* when two clients update it at once
CallRESTUpdateMain(w) ==
    /\ issued[w] < UpdatesPerWorker
    /\ issued' = [issued EXCEPT ![w] = @ + 1]
    /\ Invoke(w, "RESTUpdate", MainName, "Get.body")
    /\ RLock(w)
    /\ WithoutObject(w)
    /\ UNCHANGED <<parked, Table, History>>

NextUpdates ==
    \E w \in Workers :
        \/ CallCreateMain(w)
        \/ CallRESTUpdateMain(w)
        \/ RESTUpdateCallback(w)
        \/ RESTUpdateFailed(w)
        \/ RESTReturn(w)
        \/ RUnlock(w)
        \/ Unlock(w)
        \/ Get(w)
        \/ CreateCheck(w)
        \/ CreateStore(w)
        \/ UpdateCheck(w)
        \/ UpdateStore(w)

SpecUpdates == Init /\ [][NextUpdates]_vars

\* ---------------------------------------------------------------- fair scheduling
\* What a worker does once its call is in: the steps of the call up to its
\* return. Sending a call is left to the client.
Proceed(w) ==
    \/ RESTUpdateCallback(w)
    \/ RESTUpdateFailed(w)
    \/ RESTDeleteDelete(w)
    \/ RESTReturn(w)
    \/ RUnlock(w)
    \/ Unlock(w)
    \/ Get(w)
    \/ List(w)
    \/ CreateCheck(w)
    \/ CreateStore(w)
    \/ UpdateCheck(w)
    \/ UpdateStore(w)
    \/ Delete(w)

\* Every request runs on a worker of its own, which the scheduler keeps
\* running, and sync.RWMutex lets a goroutine that waits in Lock or RLock in
\* whenever the lock is free again and again (a waiting writer holds new
\* readers back, and a mutex that starves a waiter hands the lock over to it)
Fairness == \A w \in Workers : SF_vars(Proceed(w))

\* Requests for the one name through the adapter, and Lists of the storage
NextFair ==
    \E w \in Workers :
        \/ RequestCreate(w)
        \/ RequestGet(w)
        \/ RequestUpdate(w)
        \/ RequestDelete(w)
        \/ CallList(w)
        \/ RESTUpdateCallback(w)
        \/ RESTUpdateFailed(w)
        \/ RESTDeleteDelete(w)
        \/ RESTReturn(w)
        \/ RUnlock(w)
        \/ Unlock(w)
        \/ Get(w)
        \/ List(w)
        \/ CreateCheck(w)
        \/ CreateStore(w)
        \/ UpdateCheck(w)
        \/ UpdateStore(w)
        \/ Delete(w)

SpecFair == Init /\ [][NextFair]_vars /\ Fairness

\* ---------------------------------------------------------------- creates of one name
\* Every worker sends Creates of the one name, each with a payload of its
\* choice, and reads the name back
CallCreateSame(w) ==
    \E forged \in BOOLEAN :
        /\ issued[w] < CreatesPerWorker
        /\ issued' = [issued EXCEPT ![w] = @ + 1]
        /\ VersionRoom
        /\ UUIDRoom(1)
        /\ Invoke(w, "Create", "", "Create.check")
        /\ Lock(w)
        /\ WithObject(w, Payload(MainName, forged))
        /\ UNCHANGED <<parked, Table, History>>

CallGetMain(w) == CallGet(w) /\ name'[w] = MainName

NextSameName ==
    \E w \in Workers :
        \/ CallCreateSame(w)
        \/ CallGetMain(w)
        \/ CreateCheck(w)
        \/ CreateStore(w)
        \/ Get(w)
        \/ Unlock(w)
        \/ RUnlock(w)

SpecSameName == Init /\ [][NextSameName]_vars

\* ---------------------------------------------------------------- concurrent deletes
\* The one object is created; then every worker sends Deletes of it, to the
\* storage or through the adapter, and nobody creates it again
CallCreateFirst(w) ==
    /\ creates = 0
    /\ \A v \in Workers : pc[v] = "idle"
    /\ CallCreateMain(w)

CallDeleteMain(w) ==
    /\ creates = 1
    /\ issued[w] < DeletesPerWorker
    /\ issued' = [issued EXCEPT ![w] = @ + 1]
    /\ \/ /\ Invoke(w, "Delete", MainName, "Delete.body")
          /\ Lock(w)
       \/ /\ Invoke(w, "RESTDelete", MainName, "Get.body")
          /\ RLock(w)
    /\ WithoutObject(w)
    /\ UNCHANGED <<parked, Table, History>>

NextDeletes ==
    \E w \in Workers :
        \/ CallCreateFirst(w)
        \/ CallDeleteMain(w)
        \/ RESTDeleteDelete(w)
        \/ RESTReturn(w)
        \/ RUnlock(w)
        \/ Unlock(w)
        \/ Get(w)
        \/ CreateCheck(w)
        \/ CreateStore(w)
        \/ Delete(w)

SpecDeletes == Init /\ [][NextDeletes]_vars

\* ---------------------------------------------------------------- concurrent creates
\* TestGadgetStorage_ThreadSafety: every goroutine creates names of its own,
\* one after the other; when all are through, the test lists the table.
OwnName(w, j) == "gadget-" \o w \o "-" \o ToString(j)

AllOwnNames == {OwnName(w, j) : w \in Workers, j \in 0..(CreatesPerWorker - 1)}

CallCreateOwn(w) ==
    /\ issued[w] < CreatesPerWorker
    /\ issued' = [issued EXCEPT ![w] = @ + 1]
    /\ Invoke(w, "Create", "", "Create.check")
    /\ Lock(w)
    /\ WithObject(w, Payload(OwnName(w, issued[w]), FALSE))
    /\ UNCHANGED <<parked, Table, History>>

CallListFinal(w) ==
    /\ \A v \in Workers : issued[v] = CreatesPerWorker /\ pc[v] = "idle"
    /\ CallList(w)

NextCreates ==
    \E w \in Workers :
        \/ CallCreateOwn(w)
        \/ CallListFinal(w)
        \/ CreateCheck(w)
        \/ CreateStore(w)
        \/ Unlock(w)
        \/ List(w)
        \/ RUnlock(w)

SpecCreates == Init /\ [][NextCreates]_vars

\* ---------------------------------------------------------------- properties
\* The fields the table manages or keeps for the caller
Managed(e) ==
    [Name |-> e.Name, Namespace |-> e.Namespace, Spec |-> e.Spec, Status |-> e.Status,
     UID |-> e.UID, CreationTimestamp |-> e.CreationTimestamp,
     ResourceVersion |-> e.ResourceVersion]

IsNotFound(err) == err.what = "not found"

IsAlreadyExists(err) == err.what = "already exists"

\* Worker w takes a step of its own
StepOf(w) == pc'[w] # pc[w]

TableUnchanged == TableView' = TableView /\ versionCounter' = versionCounter

WriteSections ==
    {"Create.check", "Create.store", "Create.Unlock", "Update.check", "Update.store",
     "Update.Unlock", "Delete.body", "Delete.Unlock"}

ReadSections == {"Get.body", "Get.RUnlock", "List.body", "List.RUnlock"}

WritersInside == {w \in Workers : pc[w] \in WriteSections}

ReadersInside == {w \in Workers : pc[w] \in ReadSections}

\* C1: a Create fails only when its name is in the table (so a Create of a
\* name that is not there succeeds), and a Get of a name returns, field by
\* field (name, namespace, spec, status, UID, creation timestamp, resource
\* version), the entity the last successful write of that name returned.
CreateGetRoundTrip ==
    \A w \in Workers :
        /\ (pc[w] = "Create.Unlock" /\ ret[w].err # NoError)
              => heap[gadget[w]].Name \in DOMAIN lastRet
        /\ (pc[w] = "Get.RUnlock" /\ name[w] \in DOMAIN lastRet)
              => /\ ret[w].err = NoError
                 /\ ret[w].obj # Nil
                 /\ Managed(heap[ret[w].obj]) = Managed(lastRet[name[w]])

\* A Get has found an entity created from a payload that carried a namespace
\* and a spec of its own.
CreateGetRoundTripWitness ==
    \E w \in Workers :
        /\ pc[w] = "Get.RUnlock" /\ top[w] = "Get"
        /\ ret[w].err = NoError
        /\ heap[ret[w].obj].Namespace = "other"
        /\ heap[ret[w].obj].Status = "Active"

\* C2: a Create whose name is in the table fails with the already-exists
\* error and changes neither the table (every stored entity stays as it is)
\* nor the version counter.
CreateDuplicateRejected ==
    [][\A w \in Workers :
         /\ (pc[w] = "Create.check" /\ StepOf(w)
               /\ heap[gadget[w]].Name \in DOMAIN lastRet)
              => /\ pc'[w] = "Create.Unlock"
                 /\ IsAlreadyExists(ret'[w].err)
                 /\ ret'[w].obj = Nil
                 /\ TableUnchanged
         /\ (pc[w] = "Create.Unlock" /\ StepOf(w) /\ ret[w].err # NoError)
              => TableUnchanged]_vars

\* A Create has been rejected as a duplicate.
CreateDuplicateRejectedWitness ==
    \E w \in Workers :
        /\ pc[w] = "Create.Unlock"
        /\ IsAlreadyExists(ret[w].err)
        /\ heap[gadget[w]].Name \in DOMAIN gadgets

\* C3: an Update whose name is not in the table fails with the not-found
\* error, creates no entry and leaves the table and the version counter as
\* they are.
UpdateAbsentRejected ==
    [][\A w \in Workers :
         /\ (pc[w] = "Update.check" /\ StepOf(w)
               /\ heap[gadget[w]].Name \notin DOMAIN lastRet)
              => /\ pc'[w] = "Update.Unlock"
                 /\ IsNotFound(ret'[w].err)
                 /\ ret'[w].obj = Nil
                 /\ TableUnchanged
         /\ (pc[w] = "Update.Unlock" /\ StepOf(w) /\ ret[w].err # NoError)
              => TableUnchanged]_vars

\* A Storage.Update of an absent name has failed while the table held
\* another entry.
UpdateAbsentRejectedWitness ==
    \E w \in Workers :
        /\ pc[w] = "Update.Unlock" /\ top[w] = "Update"
        /\ IsNotFound(ret[w].err)
        /\ heap[gadget[w]].Name \notin DOMAIN gadgets
        /\ DOMAIN gadgets # {}

\* C4: while a name stays in the table, the UID and the creation timestamp
\* stored under it never change, whatever an update's payload carries.
IdentityImmutable ==
    [][\A n \in DOMAIN gadgets \cap DOMAIN gadgets' :
         /\ heap'[gadgets'[n]].UID = Stored(n).UID
         /\ heap'[gadgets'[n]].CreationTimestamp = Stored(n).CreationTimestamp]_vars

\* A REST Update whose callback returned an object with a UID and a
\* timestamp of its own has been stored.
IdentityImmutableWitness ==
    \E w \in Workers :
        /\ pc[w] = "Update.Unlock" /\ top[w] = "RESTUpdate"
        /\ ret[w].err = NoError
        /\ input[w].UID = "forged-uid"
        /\ input[w].CreationTimestamp # Stored(name[w]).CreationTimestamp

\* C5: every write is stamped with a resource version that is, as a number,
\* larger than the version of every earlier write of the table, and the
\* counter never decreases.
VersionsStrictlyIncrease ==
    [][/\ versionCounter' >= versionCounter
       /\ stamps' # stamps
            => \A i \in DOMAIN stamps :
                   Atoi(stamps[i]) < Atoi(stamps'[Len(stamps')])]_vars

\* A name has been created, deleted and created again: the second Create is
\* stamped after the first.
VersionsStrictlyIncreaseWitness ==
    /\ Len(stamps) = 2
    /\ creates = 2 /\ deletes = 1
    /\ gone = {}
    /\ Cardinality(DOMAIN gadgets) = 1

\* C6: a Get of a name whose last successful write was a Delete (or that was
\* never created) fails with the not-found error; a Delete of a name that is
\* not in the table fails with it too and changes nothing.
DeleteThenNotFound ==
    [][\A w \in Workers :
         /\ (pc[w] = "Get.body" /\ StepOf(w) /\ name[w] \notin DOMAIN lastRet)
              => /\ IsNotFound(ret'[w].err)
                 /\ ret'[w].obj = Nil
         /\ (pc[w] = "Delete.body" /\ StepOf(w) /\ name[w] \notin DOMAIN lastRet)
              => /\ IsNotFound(ret'[w].err)
                 /\ TableUnchanged
         /\ (pc[w] = "Delete.Unlock" /\ StepOf(w) /\ ret[w].err # NoError)
              => TableUnchanged]_vars

\* A Get of a deleted name has failed.
DeleteThenNotFoundWitness ==
    \E w \in Workers :
        /\ pc[w] = "Get.RUnlock" /\ top[w] = "Get"
        /\ name[w] \in gone
        /\ IsNotFound(ret[w].err)

\* C7: List returns, without error, exactly one item per name in the table,
\* each the entity the last successful write of that name returned; their
\* number is the number of successful Creates minus that of successful Deletes.
ListReturnsTable ==
    \A w \in Workers :
        pc[w] = "List.RUnlock"
            => /\ ret[w].err = NoError
               /\ ret[w].items = SetToBag(Range(lastRet))
               /\ BagCardinality(ret[w].items) = Cardinality(DOMAIN lastRet)
               /\ BagCardinality(ret[w].items) = creates - deletes

\* A List after two Creates and one Delete has returned one item.
ListReturnsTableWitness ==
    \E w \in Workers :
        /\ pc[w] = "List.RUnlock"
        /\ creates = 2 /\ deletes = 1
        /\ BagCardinality(ret[w].items) = 1

\* C8: in the concurrent-creates scenario (every worker creating names no
\* other worker uses) every Create succeeds, whatever the interleaving, and
\* the final List holds exactly one item per name created.
ConcurrentCreatesAllStored ==
    \A w \in Workers :
        /\ pc[w] = "Create.Unlock" => ret[w].err = NoError
        /\ pc[w] = "List.RUnlock"
             => /\ {v.Name : v \in BagToSet(ret[w].items)} = AllOwnNames
                /\ BagCardinality(ret[w].items) = Cardinality(Workers) * CreatesPerWorker

\* The final List has returned, with all the names in it.
ConcurrentCreatesAllStoredWitness ==
    \E w \in Workers :
        /\ pc[w] = "List.RUnlock"
        /\ BagCardinality(ret[w].items) = Cardinality(AllOwnNames)
        /\ \A v \in Workers : issued[v] = CreatesPerWorker

\* C9: at most one writer is between Lock and Unlock, and never while a
\* reader is between RLock and RUnlock; readers may be inside together.
LockDiscipline ==
    /\ Cardinality(WritersInside) <= 1
    /\ WritersInside # {} => ReadersInside = {}
    /\ \A w \in WritersInside : mu.writer = w
    /\ ReadersInside = mu.readers

\* Two readers are inside at the same time.
LockDisciplineWitness == Cardinality(ReadersInside) >= 2

\* C10: when a caller writes into an object it passed to or got back from
\* the storage, the table as readers see it does not change.
StoredNeverAliased ==
    [][(\E w \in Workers : wrote'[w] # "" /\ wrote[w] = "")
          => TableView' = TableView]_vars

\* A caller has written into the object it passed to Create, after the
\* Create stored it.
StoredNeverAliasedWitness ==
    \E w \in Workers : wrote[w] = "Create" /\ DOMAIN gadgets # {}

\* C11: the entity a successful Create or Update returns is a copy: it is
\* neither the object the caller passed in nor the record in the map slot,
\* and the map slot is not the caller's object either.
ReturnedIsACopy ==
    \A w \in Workers :
        (pc[w] \in {"Create.Unlock", "Update.Unlock"} /\ ret[w].err = NoError)
            => /\ ret[w].obj # gadget[w]
               /\ ret[w].obj \notin Range(gadgets)
               /\ gadget[w] \notin Range(gadgets)

\* C12: every failure of a storage operation is a typed error, in both
\* tables: not-found from Get, Update and Delete on an absent name,
\* already-exists from Create on a present name.
FailuresAreTyped ==
    \A w \in Workers :
        (pc[w] \in {"Get.RUnlock", "Create.Unlock", "Update.Unlock", "Delete.Unlock"}
           /\ ret[w].err # NoError)
            => /\ ret[w].err.typed
               /\ pc[w] = "Create.Unlock" => IsAlreadyExists(ret[w].err)
               /\ pc[w] # "Create.Unlock" => IsNotFound(ret[w].err)

\* C13: a successful Create stamps the server-managed fields whatever the
\* payload carries: the entity stored and the entity returned have status
\* Active, a non-empty resource version that reads as the counter's value at
\* that moment, a generated UID (not empty, not the payload's, no other stored
\* entity's) and a creation timestamp read from the clock.
CreateStampsManaged ==
    [][\A w \in Workers :
         (pc[w] = "Create.store" /\ StepOf(w))
            => LET n == heap[gadget[w]].Name
               IN /\ ret'[w].err = NoError
                  /\ n \in DOMAIN gadgets'
                  /\ \A x \in {heap'[gadgets'[n]], heap'[ret'[w].obj]} :
                        /\ x.Status = "Active"
                        /\ x.ResourceVersion # ""
                        /\ Atoi(x.ResourceVersion) = versionCounter
                        /\ x.UID \notin {"", input[w].UID}
                        /\ \A m \in DOMAIN gadgets \ {n} : Stored(m).UID # x.UID
                        /\ x.CreationTimestamp \in Times
                        /\ x.CreationTimestamp # input[w].CreationTimestamp]_vars

\* A Create whose payload carried a status, a resource version, a UID and a
\* timestamp of its own has succeeded.
CreateStampsManagedWitness ==
    \E w \in Workers :
        /\ pc[w] = "Create.Unlock" /\ ret[w].err = NoError
        /\ input[w].Status = "Pending" /\ input[w].UID = "forged-uid"
        /\ input[w].ResourceVersion = "999"
        /\ Stored(heap[gadget[w]].Name).Status = "Active"

\* C14: every key of the table is non-empty and is the Name of the entity
\* stored under it; a Create with an empty name gets a generated name that
\* is not in the table, and succeeds.
NameInvariant ==
    [][/\ \A n \in DOMAIN gadgets' : n # "" /\ heap'[gadgets'[n]].Name = n
       /\ \A w \in Workers :
            /\ (pc[w] = "Create.check" /\ StepOf(w) /\ heap[gadget[w]].Name = "")
                  => /\ heap'[gadget[w]].Name \notin {""} \cup DOMAIN gadgets
                     /\ pc'[w] = "Create.store"
            /\ (pc[w] = "Create.store" /\ StepOf(w))
                  => /\ ret'[w].err = NoError
                     /\ heap[gadget[w]].Name \in DOMAIN gadgets' \ DOMAIN gadgets]_vars

\* A Create without a name has succeeded: the entry is under the generated
\* name.
NameInvariantWitness ==
    \E w \in Workers :
        /\ pc[w] = "Create.Unlock" /\ ret[w].err = NoError
        /\ input[w].Name = ""
        /\ heap[gadget[w]].Name \in DOMAIN gadgets \ CallerNames

\* C15: a successful Update stores the spec and the status of its payload,
\* keeping nothing of the previous ones, under a resource version different
\* from the one before; a later Get of the name returns that spec, status
\* and version.
UpdateReplacesWholesale ==
    [][\A w \in Workers :
         /\ (pc[w] = "Update.store" /\ StepOf(w))
              => LET n == heap[gadget[w]].Name
                 IN /\ ret'[w].err = NoError
                    /\ heap'[gadgets'[n]].Spec = input[w].Spec
                    /\ heap'[gadgets'[n]].Status = input[w].Status
                    /\ heap'[gadgets'[n]].ResourceVersion # Stored(n).ResourceVersion
                    /\ lastRet'[n].Spec = input[w].Spec
                    /\ lastRet'[n].Status = input[w].Status
                    /\ lastRet'[n].ResourceVersion = heap'[gadgets'[n]].ResourceVersion
         /\ (pc[w] = "Get.body" /\ StepOf(w) /\ name[w] \in DOMAIN lastRet)
              => /\ ret'[w].err = NoError
                 /\ heap'[ret'[w].obj].Spec = lastRet[name[w]].Spec
                 /\ heap'[ret'[w].obj].Status = lastRet[name[w]].Status
                 /\ heap'[ret'[w].obj].ResourceVersion
                        = lastRet[name[w]].ResourceVersion]_vars

\* A Get has returned an entity whose status an Update has replaced by the
\* empty status of its payload.
UpdateReplacesWholesaleWitness ==
    \E w \in Workers :
        /\ pc[w] = "Get.RUnlock" /\ top[w] = "Get"
        /\ ret[w].err = NoError
        /\ heap[ret[w].obj].Status = ""
        /\ heap[ret[w].obj].Spec = "v1.0"
        /\ heap[ret[w].obj].ResourceVersion # "1"

\* C16: the Storage.Update a REST Update makes works on the path name,
\* whatever name the callback's result carries: it looks that name up, and
\* when it stores, the entry under the path name is the one replaced, by an
\* entity whose Name is the path name and whose spec is the result's; no
\* entry appears and no entry under another name changes.
RESTUpdateForcesName ==
    [][\A w \in Workers :
         /\ (top[w] = "RESTUpdate" /\ pc[w] = "Update.check" /\ StepOf(w))
              => /\ ret'[w].err # NoError => ret'[w].err.name = name[w]
                 /\ ret'[w].err = NoError => existing'[w] = gadgets[name[w]]
                 /\ TableUnchanged
         /\ (top[w] = "RESTUpdate" /\ pc[w] = "Update.store" /\ StepOf(w))
              => /\ DOMAIN gadgets' = DOMAIN gadgets
                 /\ heap'[gadgets'[name[w]]].Name = name[w]
                 /\ heap'[gadgets'[name[w]]].Spec = input[w].Spec
                 /\ heap'[ret'[w].obj].Name = name[w]
                 /\ \A m \in DOMAIN gadgets \ {name[w]} :
                        heap'[gadgets'[m]] = Stored(m)]_vars

\* A REST Update whose callback returned an object under another name has
\* been stored.
RESTUpdateForcesNameWitness ==
    \E w \in Workers :
        /\ top[w] = "RESTUpdate" /\ pc[w] = "Update.Unlock"
        /\ ret[w].err = NoError
        /\ input[w].Name # name[w]
        /\ input[w].Name \notin DOMAIN gadgets
        /\ Stored(name[w]).Spec = input[w].Spec

\* C17: a REST Update of a name that is not in the table gets the not-found
\* error from its Get and returns (nil, false, that error) at once: the
\* callback is not invoked, no Storage.Update is made, and the table and the
\* version counter stay as they are.
RESTUpdateAbsentRejected ==
    [][\A w \in Workers :
         top[w] = "RESTUpdate"
            => /\ (pc[w] = "Get.body" /\ StepOf(w) /\ name[w] \notin DOMAIN lastRet)
                    => /\ IsNotFound(ret'[w].err)
                       /\ ret'[w].err.name = name[w]
                       /\ TableUnchanged
               /\ (pc[w] = "Get.RUnlock" /\ StepOf(w) /\ ret[w].err # NoError)
                    => /\ pc'[w] = "REST.return"
                       /\ ret'[w].err = ret[w].err
                       /\ ret'[w].obj = Nil
                       /\ ret'[w].flag = FALSE
                       /\ gadget'[w] = Nil
                       /\ TableUnchanged
               /\ (pc[w] = "REST.return" /\ StepOf(w) /\ ret[w].err # NoError)
                    => /\ pc'[w] = "idle"
                       /\ TableUnchanged]_vars

\* A REST Update of an absent name is about to return the not-found error of
\* its Get, while another entry is in the table.
RESTUpdateAbsentRejectedWitness ==
    \E w \in Workers :
        /\ top[w] = "RESTUpdate" /\ pc[w] = "REST.return"
        /\ IsNotFound(ret[w].err)
        /\ gadget[w] = Nil
        /\ name[w] \notin DOMAIN gadgets
        /\ DOMAIN gadgets # {}

\* C20: when a Storage call the adapter made (Get, Create, Update, Delete)
\* has failed, the adapter returns, without another call to the storage,
\* and the error it returns is the error value the storage returned.
RESTSurfacesStorageErrors ==
    [][\A w \in Workers :
         top[w] \in RESTOps
            => /\ (/\ pc[w] \in {"Get.RUnlock", "Create.Unlock", "Update.Unlock",
                                 "Delete.Unlock"}
                   /\ StepOf(w)
                   /\ ret[w].err # NoError)
                    => /\ pc'[w] = "REST.return"
                       /\ ret'[w].err = ret[w].err
               /\ (pc[w] = "REST.return" /\ StepOf(w))
                    => /\ pc'[w] = "idle"
                       /\ TableUnchanged]_vars

\* A REST Delete is about to return the not-found error of its
\* Storage.Delete: another Delete took the name after the adapter's Get.
RESTSurfacesStorageErrorsWitness ==
    \E w \in Workers :
        /\ top[w] = "RESTDelete" /\ pc[w] = "REST.return"
        /\ IsNotFound(ret[w].err)
        /\ ret[w].err.name = name[w]
        /\ ret[w].obj = OutLoc(w)

UnlockPoints == {"Create.Unlock", "Update.Unlock", "Delete.Unlock"}

\* C18: every operation is all-or-nothing against the table. A step changes
\* the table or the counter only as the one store of a Create or an Update
\* (the counter advanced and the whole stamped entity stored under its name,
\* together) or as the removal of a Delete (the entry gone, the counter
\* kept), with no error to follow; it is taken by the holder of the write
\* lock while no other worker is inside a critical section, so that nobody
\* sees it half done. A call that fails changes nothing, an operation that
\* has failed does nothing more to the table, and a write that succeeds has
\* changed it.
AllOrNothing ==
    [][\A w \in Workers :
         /\ (StepOf(w) /\ ~TableUnchanged)
              => /\ mu.writer = w /\ mu.readers = {}
                 /\ \A v \in Workers \ {w} : pc[v] \notin WriteSections \cup ReadSections
                 /\ pc'[w] \in UnlockPoints
                 /\ ret'[w].err = NoError
                 /\ \/ /\ pc[w] \in {"Create.store", "Update.store"}
                       /\ versionCounter' = versionCounter + 1
                       /\ LET n == heap[gadget[w]].Name
                          IN /\ DOMAIN gadgets' = DOMAIN gadgets \cup {n}
                             /\ Managed(heap'[gadgets'[n]]) = Managed(heap'[ret'[w].obj])
                             /\ Atoi(heap'[gadgets'[n]].ResourceVersion) = versionCounter
                             /\ \A m \in DOMAIN gadgets \ {n} :
                                    heap'[gadgets'[m]] = Stored(m)
                    \/ /\ pc[w] = "Delete.body"
                       /\ versionCounter' = versionCounter
                       /\ DOMAIN gadgets' = DOMAIN gadgets \ {name[w]}
                       /\ name[w] \in DOMAIN gadgets
                       /\ \A m \in DOMAIN gadgets' : heap'[gadgets'[m]] = Stored(m)
         /\ (StepOf(w) /\ ret'[w].err # NoError) => TableUnchanged
         /\ (StepOf(w) /\ ret[w].err # NoError)
              => pc'[w] \in {"REST.return", "idle"}
         /\ (StepOf(w) /\ pc[w] \in UnlockPoints \cup {"REST.return"} /\ pc'[w] # "idle")
              => ret'[w].err = ret[w].err
         /\ (StepOf(w) /\ pc'[w] \in UnlockPoints /\ ret'[w].err = NoError)
              => TableView' # TableView]_vars

\* A REST Update is about to return the not-found error of its
\* Storage.Update: the name was deleted after the adapter's Get, and the
\* failed Update has left the counter where the Create put it.
AllOrNothingWitness ==
    \E w \in Workers :
        /\ top[w] = "RESTUpdate" /\ pc[w] = "REST.return"
        /\ IsNotFound(ret[w].err)
        /\ gadget[w] # Nil
        /\ gadgets = EmptyMap
        /\ versionCounter = 2

\* ---------------------------------------------------------------- C19
\* What a table holds: its entries and its version counter
ViewOf(k) ==
    IF kind = k
    THEN <<TableView, versionCounter>>
    ELSE <<[n \in DOMAIN parked.gadgets |-> parked.heap[parked.gadgets[n]]],
           parked.versionCounter>>

\* A client that waits for nothing but the lock of the table it addresses:
\* its read goes in when no writer is in that table, its write when nobody is
LockOfOwnTableOnly ==
    /\ pc["w1"] = "idle" /\ CanRLock(mu) => ENABLED RequestGet("w1")
    /\ pc["w1"] = "RESTDelete.delete" /\ CanLock(mu)
           => ENABLED RESTDeleteDelete("w1")

\* C19: the Widget and Gadget tables are independent. A step of a request to
\* one table, whether the request succeeds or fails, leaves the entries and
\* the version counter of the other table as they were, and a request is never
\* kept waiting by a worker inside the critical section of the other table:
\* it goes in as soon as the lock of its own table allows.
TablesIndependent ==
    /\ [][\A k \in Kinds : (kind # k \/ kind' # k) => ViewOf(k)' = ViewOf(k)]_vars
    /\ []LockOfOwnTableOnly

\* Both tables have a writer inside at once, and the tables differ in their
\* entries and in their version counters
TablesIndependentWitness ==
    /\ mu.writer # NoWorker
    /\ parked.mu.writer # NoWorker
    /\ DOMAIN gadgets # DOMAIN parked.gadgets
    /\ versionCounter # parked.versionCounter

\* ---------------------------------------------------------------- C21
\* A step of a Watch request in the table the step is in: its call or its return
WatchStep(w) ==
    /\ kind' = kind
    /\ top[w] = "RESTWatch" \/ top'[w] = "RESTWatch"
    /\ top'[w] # top[w]

\* C21: Watch on either adapter can be called in every state, whatever its
\* options are; it hands back no event stream and the error "watch not
\* implemented", and neither its call nor its return changes the entries or
\* the version counter of either table.
WatchNotImplemented ==
    /\ [](pc["w1"] = "idle" => ENABLED CallRESTWatch("w1"))
    /\ [](\A w \in Workers :
            top[w] = "RESTWatch" => ret[w].obj = Nil /\ ret[w].err = WatchError)
    /\ [][\A w \in Workers :
            WatchStep(w) => \A k \in Kinds : ViewOf(k)' = ViewOf(k)]_vars

\* A Watch has come back with its error from a table that has an entry, while
\* a writer is inside the other table
WatchNotImplementedWitness ==
    /\ top["w1"] = "RESTWatch"
    /\ ret["w1"].err = WatchError
    /\ gadgets # EmptyMap
    /\ parked.mu.writer # NoWorker

\* ---------------------------------------------------------------- C22
\* C22: List returns a snapshot. Whatever the other workers do while the loop
\* over the map runs, the items collected so far are entries of the table as
\* it is, and the items List returns are the entries of the table at the one
\* instant the loop ends, which lies between call and return: one copy of
\* each, none from an earlier or a later table.
ListIsSnapshot ==
    \A w \in Workers :
        /\ pc[w] = "List.loop"
              => \A v \in BagToSet(ret[w].items) :
                     /\ CopiesIn(v, ret[w].items) = 1
                     /\ v.Name \in DOMAIN gadgets
                     /\ v = DeepCopyObject(Stored(v.Name))
        /\ pc[w] = "List.RUnlock" => ret[w].items = ListItems(gadgets, heap)

\* A List has gone through a table of two entries, one of them written twice,
\* while the other worker made its own list
ListIsSnapshotWitness ==
    \E w \in Workers, v \in Workers :
        /\ w # v
        /\ pc[w] = "List.RUnlock"
        /\ BagCardinality(ret[w].items) = 2
        /\ pc[v] = "List.loop"
        /\ BagCardinality(ret[v].items) = 1

\* ---------------------------------------------------------------- C23
HoldsLock(w) == mu.writer = w \/ w \in mu.readers

\* The adapter's own statements, between and after its calls into the storage
AdapterPoints == {"RESTUpdate.callback", "RESTUpdate.failed", "RESTDelete.delete",
                  "REST.return"}

\* C23 as stated: no table lock is held across external code. The adapter is
\* at the callback of REST Update holding no lock, and nothing outside the
\* storage is called inside a critical section: the UUID generator of the
\* process hands out a value only while no worker is inside the table.
NoLockAcrossExternalCode ==
    /\ [](\A w \in Workers : pc[w] \in AdapterPoints => ~HoldsLock(w))
    /\ [][uuidCounter' # uuidCounter
            => mu.writer = NoWorker /\ mu.readers = {}]_vars

\* C23, amended: the adapter runs the callback of REST Update, and every
\* other statement of its own, holding no table lock; the one thing outside
\* the storage that is called inside a critical section is the UUID
\* generator, by Create while it holds the write lock, and by nobody else.
CallbackOutsideLock ==
    /\ [](\A w \in Workers : pc[w] \in AdapterPoints => ~HoldsLock(w))
    /\ [][uuidCounter' # uuidCounter
            => /\ mu.writer # NoWorker
               /\ pc[mu.writer] \in {"Create.check", "Create.store"}
               /\ mu' = mu]_vars

\* A REST Update is at its callback, of an entry whose Create drew its UUID
\* inside the write lock, while the other worker is inside a Delete
CallbackOutsideLockWitness ==
    \E w \in Workers :
        /\ pc[w] = "RESTUpdate.callback"
        /\ mu.writer \in Workers \ {w}
        /\ pc[mu.writer] = "Delete.body"
        /\ uuidCounter > 0

\* ---------------------------------------------------------------- C24
\* C24: there is no version conflict detection. Whatever resource version the
\* payload of Storage.Update carries, and whatever the callback of REST Update
\* hands back, the update of a name that is in the table passes the check and
\* succeeds; the entry stored and the object returned carry the counter's
\* value as their resource version, and the counter moves on by one.
NoConflictDetection ==
    [][\A w \in Workers :
          LET nm == heap[gadget[w]].Name
          IN /\ pc[w] = "Update.check" /\ pc'[w] # "Update.check"
                   /\ Exists(gadgets, nm)
                 => pc'[w] = "Update.store"
             /\ pc[w] = "Update.store" /\ pc'[w] # "Update.store"
                 => /\ pc'[w] = "Update.Unlock"
                    /\ ret'[w].err = NoError
                    /\ heap'[gadgets'[nm]].ResourceVersion = Sprintf(versionCounter)
                    /\ heap'[ret'[w].obj].ResourceVersion = Sprintf(versionCounter)
                    /\ versionCounter' = versionCounter + 1]_vars

\* A Storage.Update whose payload carried a resource version older than the
\* stored one has succeeded, and the entry carries the counter's value
NoConflictDetectionWitness ==
    \E w \in Workers :
        /\ top[w] = "Update" /\ pc[w] = "Update.Unlock"
        /\ ret[w].err = NoError
        /\ input[w].ResourceVersion = "0"
        /\ Stored(MainName).ResourceVersion = "2"

\* ---------------------------------------------------------------- C25
\* The entries of the table that carry the name n, in whatever namespace
EntriesNamed(n) == {k \in DOMAIN gadgets : Stored(k).Name = n}

\* C25: the table is keyed by name alone. The namespace is stored as the
\* caller supplied it and never looked at: no two entries carry the same
\* name, a Create of a name that an entry of any namespace carries fails with
\* already-exists and changes nothing, and Get, Update and Delete of a name
\* find the one entry that carries it, whatever the namespace of that entry
\* and of the payload.
KeyedByNameAlone ==
    /\ [](\A n \in CallerNames : Cardinality(EntriesNamed(n)) <= 1)
    /\ [][\A w \in Workers :
            /\ pc[w] = "Create.check" /\ pc'[w] # "Create.check"
                   /\ EntriesNamed(heap'[gadget[w]].Name) # {}
                => /\ ret'[w].err = AlreadyExistsError(kind, heap'[gadget[w]].Name)
                   /\ TableView' = TableView
            /\ pc[w] \in {"Create.store", "Update.store"} /\ pc'[w] # pc[w]
                => LET nm == heap[gadget[w]].Name
                   IN /\ EntriesNamed(nm)' = {nm}
                      /\ heap'[gadgets'[nm]].Namespace = input[w].Namespace
            /\ pc[w] = "Get.body" /\ pc'[w] # "Get.body"
                   /\ EntriesNamed(name[w]) # {}
                => /\ ret'[w].err = NoError
                   /\ \E k \in EntriesNamed(name[w]) : heap'[ret'[w].obj] = Stored(k)
            /\ pc[w] = "Update.check" /\ pc'[w] # "Update.check"
                   /\ EntriesNamed(heap[gadget[w]].Name) # {}
                => /\ pc'[w] = "Update.store"
                   /\ existing'[w] \in {gadgets[k] : k \in EntriesNamed(heap[gadget[w]].Name)}
            /\ pc[w] = "Delete.body" /\ pc'[w] # "Delete.body"
                   /\ EntriesNamed(name[w]) # {}
                => /\ ret'[w].err = NoError
                   /\ EntriesNamed(name[w])' = {}]_vars

\* A Create of a name in one namespace has failed with already-exists while
\* the entry of that name is in another namespace
KeyedByNameAloneWitness ==
    \E w \in Workers :
        /\ pc[w] = "Create.Unlock"
        /\ IsAlreadyExists(ret[w].err)
        /\ input[w].Name \in DOMAIN gadgets
        /\ input[w].Namespace # Stored(input[w].Name).Namespace

\* ---------------------------------------------------------------- C26
\* The UUIDs the generator has handed out so far
Issued == {NewUUID(k) : k \in 1..uuidCounter}

\* What of an entity the payload decides
OfPayload(e) ==
    [e EXCEPT !.UID = "", !.CreationTimestamp = 0, !.ResourceVersion = "",
              !.Status = ""]

\* C26: Delete leaves no tombstone. A name whose last write was a Delete is
\* not in the table, and a Create of it passes the check and succeeds. The
\* entity it stores is made of the payload and the stamps of this Create
\* alone: its UID is one the generator had not handed out before, so not the
\* UID of the deleted entity (every UID in the table is one the generator has
\* handed out, and the generator never goes back), its status is Active, its
\* resource version is the counter's value, every other field is the
\* payload's.
NoTombstone ==
    /\ [](\A n \in gone : n \notin DOMAIN gadgets)
    /\ [](\A n \in DOMAIN gadgets : Stored(n).UID \in Issued)
    /\ [][/\ uuidCounter' >= uuidCounter
          /\ \A w \in Workers :
               LET nm == heap[gadget[w]].Name
               IN /\ pc[w] = "Create.check" /\ pc'[w] # "Create.check" /\ nm \in gone
                     => pc'[w] = "Create.store"
                  /\ pc[w] = "Create.store" /\ pc'[w] # "Create.store" /\ nm \in gone
                     => /\ ret'[w].err = NoError
                        /\ nm \in DOMAIN gadgets' /\ nm \notin gone'
                        /\ Stored(nm)'.UID \notin Issued
                        /\ Stored(nm)'.Status = "Active"
                        /\ Stored(nm)'.ResourceVersion = Sprintf(versionCounter)
                        /\ OfPayload(Stored(nm)') = OfPayload(input[w])]_vars

\* The Create of a name that had been created and deleted has succeeded, with
\* the second UID of the generator
NoTombstoneWitness ==
    \E w \in Workers :
        /\ top[w] = "Create" /\ pc[w] = "Create.Unlock"
        /\ ret[w].err = NoError
        /\ creates = 2 /\ deletes = 1 /\ gone = {}
        /\ DOMAIN gadgets = {input[w].Name}
        /\ Stored(input[w].Name).UID = NewUUID(2)

\* ---------------------------------------------------------------- C27
\* The atomic sequential map with a version counter: each operation takes the
\* map t (name -> entity) and the counter c and gives the map, the counter
\* and the result of the call at once.
SeqOutcome(t, c, obj, items, err) ==
    [table |-> t, counter |-> c, obj |-> obj, items |-> items, err |-> err]

SeqGet(t, c, k, n) ==
    IF n \in DOMAIN t
    THEN SeqOutcome(t, c, t[n], NoItems, NoError)
    ELSE SeqOutcome(t, c, Nil, NoItems, NotFoundError(k, n))

SeqList(t, c) ==
    SeqOutcome(t, c, Nil,
               [v \in Range(t) |-> Cardinality({n \in DOMAIN t : t[n] = v})], NoError)

\* p is the payload, with its name or the generated one
SeqCreate(t, c, k, p, now, uid) ==
    IF p.Name \in DOMAIN t
    THEN SeqOutcome(t, c, Nil, NoItems, AlreadyExistsError(k, p.Name))
    ELSE LET e == [p EXCEPT !.CreationTimestamp = now, !.ResourceVersion = ToString(c),
                            !.UID = uid, !.Status = "Active"]
         IN SeqOutcome([n \in DOMAIN t \cup {p.Name} |-> IF n = p.Name THEN e ELSE t[n]],
                       c + 1, e, NoItems, NoError)

SeqUpdate(t, c, k, p) ==
    IF p.Name \notin DOMAIN t
    THEN SeqOutcome(t, c, Nil, NoItems, NotFoundError(k, p.Name))
    ELSE LET e == [p EXCEPT !.CreationTimestamp = t[p.Name].CreationTimestamp,
                            !.UID = t[p.Name].UID, !.ResourceVersion = ToString(c)]
         IN SeqOutcome([n \in DOMAIN t |-> IF n = p.Name THEN e ELSE t[n]],
                       c + 1, e, NoItems, NoError)

SeqDelete(t, c, k, n) ==
    IF n \in DOMAIN t
    THEN SeqOutcome([m \in DOMAIN t \ {n} |-> t[m]], c, Nil, NoItems, NoError)
    ELSE SeqOutcome(t, c, Nil, NoItems, NotFoundError(k, n))

\* The step of a call at which it takes effect: the one statement between
\* lock and unlock that reads or writes the map for good; of a List, the end
\* of its loop over the map
TakesEffect(w) ==
    /\ StepOf(w)
    /\ \/ pc[w] \in {"Get.body", "Delete.body", "Create.store", "Update.store"}
       \/ pc[w] \in {"Create.check", "Update.check"} /\ pc'[w] \in UnlockPoints
       \/ pc'[w] = "List.RUnlock"

\* What that step leaves: the table, the counter and the result of the call
Effect(w) ==
    SeqOutcome(TableView', versionCounter',
               IF ret'[w].obj = Nil THEN Nil ELSE heap'[ret'[w].obj],
               ret'[w].items, ret'[w].err)

\* What the sequential map gives for the call of w, applied to the table and
\* the counter as they are
SeqEffects(w) ==
    LET t == TableView
        c == versionCounter
    IN CASE top[w] = "Get" -> {SeqGet(t, c, kind, name[w])}
         [] top[w] = "List" -> {SeqList(t, c)}
         [] top[w] = "Delete" -> {SeqDelete(t, c, kind, name[w])}
         [] top[w] = "Update" -> {SeqUpdate(t, c, kind, heap[gadget[w]])}
         [] top[w] = "Create" ->
                {SeqCreate(t, c, kind, heap'[gadget[w]], now, NewUUID(j)) :
                     now \in Times, j \in 1..(MaxUUID + 1)}
         [] OTHER -> {}

\* C27: the table is linearizable. Every call takes effect at one step
\* between its invocation and its return, and there the table, the counter
\* and the call's result are what the atomic sequential map gives for that
\* call on the table and counter of that moment; no other step changes the
\* table or the counter, and the result a call has got is the result it
\* returns. The calls in the order of these steps are the sequential
\* execution, which respects real-time order.
Linearizable ==
    [][/\ \A w \in Workers : TakesEffect(w) => Effect(w) \in SeqEffects(w)
       /\ (\A w \in Workers : ~TakesEffect(w)) => TableUnchanged
       /\ \A w \in Workers :
            pc[w] \in UnlockPoints \cup {"Get.RUnlock", "List.RUnlock"} /\ ~StepOf(w)
                => /\ ret'[w] = ret[w]
                   /\ ret[w].obj # Nil => heap'[ret[w].obj] = heap[ret[w].obj]
       /\ \A w \in Workers :
            pc[w] = "idle" /\ StepOf(w)
                => pc'[w] \notin UnlockPoints \cup {"Get.RUnlock", "List.RUnlock", "idle"}]_vars

\* Two calls overlap after earlier writes: one worker has listed a table of
\* one entry left by two Creates and a Delete, while the other, inside with
\* it, has got that entry
LinearizableWitness ==
    \E w \in Workers, v \in Workers :
        /\ pc[w] = "List.RUnlock" /\ pc[v] = "Get.RUnlock"
        /\ creates = 2 /\ deletes = 1
        /\ BagCardinality(ret[w].items) = 1
        /\ ret[v].err = NoError
        /\ mu.readers = {w, v}

\* ---------------------------------------------------------------- C28
\* Worker w is at the store of a REST Update whose callback made its object
\* out of the old one it was handed
StoresComputedFromOld(w) ==
    /\ top[w] = "RESTUpdate"
    /\ pc[w] = "Update.store" /\ StepOf(w)
    /\ input[w].UID # "forged-uid"

\* The old object the callback of w was handed, but for the spec it changed
OldOf(w, e) == [e EXCEPT !.Spec = input[w].Spec] = input[w]

\* C28 as stated: REST Update is an atomic read-modify-write. The entity that
\* Storage.Update replaces is the old object the callback was handed, so no
\* update computed from an entity overwrites one that came after it.
NoLostUpdate ==
    [][\A w \in Workers :
          StoresComputedFromOld(w) => OldOf(w, Stored(name[w]))]_vars

\* C28, amended: REST Update is a Get, the callback and a Storage.Update, each
\* storage call atomic, the lock free in between. The old object handed to
\* the callback is the entity as the Get found it. Storage.Update never
\* rejects the name for what happened since: it replaces the entry the name
\* has when it runs, which is the old object if no write to the name came in
\* between, and otherwise the later entity, whose spec and status are lost:
\* what is stored is the callback's object with the name of the request, the
\* UID and creation timestamp of the replaced entry and the counter's value.
LastUpdateWins ==
    [][\A w \in Workers :
          /\ top[w] = "RESTUpdate" /\ pc[w] = "Get.body" /\ StepOf(w)
                 /\ Exists(gadgets, name[w])
              => heap'[ret'[w].obj] = Stored(name[w])
          /\ top[w] = "RESTUpdate" /\ pc[w] = "Update.check" /\ StepOf(w)
                 /\ Exists(gadgets, name[w])
              => pc'[w] = "Update.store"
          /\ StoresComputedFromOld(w)
              => /\ Stored(name[w]).ResourceVersion = input[w].ResourceVersion
                      => OldOf(w, Stored(name[w]))
                 /\ Stored(name[w])' =
                        [input[w] EXCEPT !.Name = name[w],
                                         !.UID = Stored(name[w]).UID,
                                         !.CreationTimestamp =
                                             Stored(name[w]).CreationTimestamp,
                                         !.ResourceVersion = Sprintf(versionCounter)]
                 /\ ret'[w].err = NoError]_vars

\* Two REST Updates were computed from the entity of version 1; the second
\* to store has replaced the entity the first had stored
LastUpdateWinsWitness ==
    \E w \in Workers :
        /\ top[w] = "RESTUpdate" /\ pc[w] = "Update.Unlock"
        /\ ret[w].err = NoError
        /\ input[w].UID # "forged-uid"
        /\ input[w].ResourceVersion = "1"
        /\ stamps = <<"1", "2", "3">>
        /\ Stored(MainName).ResourceVersion = "3"

\* ---------------------------------------------------------------- C29
\* C29: REST Update never creates an entry. When the name is not in the table
\* at the check of its Storage.Update, removed by a Delete since the adapter's
\* Get found it or otherwise, the Update gets the not-found error and the
\* table stays as it is; a name comes into the table by the store of a Create
\* and by no other step, and a name whose last write was a Delete is not in
\* the table.
UpdateNeverCreates ==
    /\ [](DOMAIN gadgets \cap gone = {})
    /\ [][/\ \A w \in Workers :
               top[w] = "RESTUpdate" /\ pc[w] = "Update.check" /\ StepOf(w)
                   /\ ~Exists(gadgets, name[w])
                 => /\ IsNotFound(ret'[w].err)
                    /\ pc'[w] = "Update.Unlock"
                    /\ TableUnchanged
          /\ \A w \in Workers :
               top[w] = "RESTUpdate" /\ IsNotFound(ret[w].err) /\ StepOf(w)
                 => TableUnchanged /\ (pc'[w] = "idle" \/ IsNotFound(ret'[w].err))
          /\ \A n \in DOMAIN gadgets' \ DOMAIN gadgets :
               \E w \in Workers :
                   /\ pc[w] = "Create.store" /\ pc'[w] = "Create.Unlock"
                   /\ heap[gadget[w]].Name = n]_vars

\* A REST Update whose Get had found the name has come back from its
\* Storage.Update with not-found: the other worker deleted the name in
\* between, and it is still absent
UpdateNeverCreatesWitness ==
    \E w \in Workers :
        /\ top[w] = "RESTUpdate" /\ pc[w] = "REST.return"
        /\ gadget[w] = ArgLoc(w)
        /\ IsNotFound(ret[w].err)
        /\ name[w] \in gone
        /\ deletes = 1

\* ---------------------------------------------------------------- C30
\* C30: a REST Delete that succeeds returns deleted = true and the entity as
\* it was stored at the moment it was removed, whatever Updates of the name
\* run beside it: the object the adapter holds when its Storage.Delete
\* removes the entry is that entry, and it is what the adapter returns.
DeleteReturnsRemoved ==
    /\ [](\A w \in Workers :
            top[w] = "RESTDelete" /\ pc[w] = "REST.return" /\ ret[w].err = NoError
                => ret[w].flag /\ ret[w].obj = OutLoc(w))
    /\ [][\A w \in Workers :
            top[w] = "RESTDelete" /\ pc[w] = "Delete.body" /\ StepOf(w)
                /\ Exists(gadgets, name[w])
              => /\ ret'[w].err = NoError
                 /\ heap'[OutLoc(w)] = Stored(name[w])]_vars

\* ---------------------------------------------------------------- C31
\* C31: whenever REST Delete returns an error it returns no object and
\* deleted = false, also when the error is that of its Storage.Delete, the
\* name having been deleted by another worker since the adapter's Get.
DeleteErrorReturnsNothing ==
    \A w \in Workers :
        top[w] = "RESTDelete" /\ pc[w] = "REST.return" /\ ret[w].err # NoError
            => ret[w].obj = Nil /\ ~ret[w].flag

\* ---- C32
DeleteReturned(w) ==
    \/ top[w] = "Delete" /\ pc[w] = "Delete.Unlock"
    \/ top[w] = "RESTDelete" /\ pc[w] = "REST.return"

DeletesAllReturned ==
    \A w \in Workers : pc[w] = "idle" /\ issued[w] = DeletesPerWorker

\* C32: among the Deletes sent for the one object after its creation, to the
\* storage or through the adapter, overlapping in any way and with no Create
\* of the name among them, exactly one returns a nil error and every other
\* one returns the not-found error: a Delete returns nil exactly when its
\* step removed the entry, the adapter hands on the error of its Get or of
\* its Storage.Delete, at most one removal ever happens, and one has
\* happened when all the calls have returned.
ExactlyOneDeleteSucceeds ==
    /\ [](deletes <= 1)
    /\ [](DeletesAllReturned => deletes = 1)
    /\ [](\A w \in Workers :
              DeleteReturned(w) => ret[w].err = NoError \/ IsNotFound(ret[w].err))
    /\ [][/\ \A w \in Workers :
                 /\ pc[w] = "Delete.body" /\ StepOf(w)
                        => (ret'[w].err = NoError <=> deletes' = deletes + 1)
                 /\ top[w] = "RESTDelete" /\ pc[w] = "Delete.Unlock" /\ StepOf(w)
                        => ret'[w].err = ret[w].err
          /\ deletes' # deletes
                 => \E w \in Workers : pc[w] = "Delete.body" /\ StepOf(w)]_vars

ExactlyOneDeleteSucceedsWitness ==
    \E w, v \in Workers :
        /\ w # v
        /\ top[w] = "RESTDelete" /\ pc[w] = "REST.return" /\ ret[w].err = NoError
        /\ top[v] = "RESTDelete" /\ pc[v] = "REST.return" /\ IsNotFound(ret[v].err)
        /\ ret[v].obj # Nil

\* ---- C33
CreatesAllReturned ==
    \A w \in Workers : pc[w] = "idle" /\ issued[w] = CreatesPerWorker

\* C33: of the Creates several workers send for one name, exactly one
\* succeeds and every other one fails with the already-exists error: a Create
\* succeeds exactly when its step stored, at most one store ever happens,
\* and one has happened when all the calls have returned. The table then
\* holds under that name the entity the winner stored, built from the
\* winner's payload, and no losing Create changes it.
OneCreateWins ==
    /\ [](creates <= 1)
    /\ [](CreatesAllReturned => creates = 1 /\ DOMAIN gadgets = {MainName})
    /\ [](\A w \in Workers :
              pc[w] = "Create.Unlock"
                  => /\ ret[w].err = NoError \/ IsAlreadyExists(ret[w].err)
                     /\ ret[w].err = NoError
                            => /\ Exists(gadgets, MainName)
                               /\ OfPayload(Stored(MainName)) = OfPayload(input[w]))
    /\ [][/\ \A w \in Workers :
                 /\ pc[w] = "Create.check" /\ StepOf(w)
                        => IF Exists(gadgets, MainName)
                           THEN IsAlreadyExists(ret'[w].err) /\ TableUnchanged
                           ELSE pc'[w] = "Create.store"
                 /\ pc[w] = "Create.store" /\ StepOf(w)
                        => /\ creates' = creates + 1
                           /\ ret'[w].err = NoError
                           /\ DOMAIN gadgets' = {MainName}
          /\ Exists(gadgets, MainName)
                 => Exists(gadgets', MainName) /\ Stored(MainName)' = Stored(MainName)
          /\ creates' # creates
                 => \E w \in Workers : pc[w] = "Create.store" /\ StepOf(w)]_vars

OneCreateWinsWitness ==
    \E w, v \in Workers :
        /\ w # v
        /\ creates = 1
        /\ pc[v] = "Create.Unlock" /\ IsAlreadyExists(ret[v].err)
        /\ issued[w] > 0 /\ pc[w] = "idle"
        /\ input[v].Spec # Stored(MainName).Spec

\* ---- C34
\* C34: every entity stored through the REST adapter carries the type tag of
\* its kind (kind Gadget or Widget, apiVersion things.myorg.io/v1alpha1) in
\* every reachable state, after a REST Create whatever tag the payload had
\* and after a REST Update whatever tag the callback's result has.
StoredCarryTypeMeta ==
    \A n \in DOMAIN gadgets : Stored(n).TypeMeta = TypeMetaOf(kind)

\* ---- C35
WriteSteps(w) == pc[w] \in {"Create.store", "Update.store"} /\ StepOf(w)

\* C35: version numbers are handed out densely. The k-th successful write to
\* the table, Create or Update, in the order the writers held the lock, is
\* stamped with resource version k, the first with 1, and the counter is one
\* more than the number of writes so far. Only the store of a Create or of an
\* Update moves the counter: Get, List, Delete and a Create or Update that
\* fails use up no number. The resource versions of the entities in the
\* table differ pairwise and are smaller than the counter.
VersionsDense ==
    /\ [](/\ \A k \in DOMAIN stamps : stamps[k] = Sprintf(k)
          /\ versionCounter = Len(stamps) + 1
          /\ \A n \in DOMAIN gadgets :
                 /\ Atoi(Stored(n).ResourceVersion) < versionCounter
                 /\ \A m \in DOMAIN gadgets :
                        n # m => Stored(n).ResourceVersion # Stored(m).ResourceVersion)
    /\ [][/\ versionCounter' # versionCounter \/ stamps' # stamps
              => \E w \in Workers :
                     /\ WriteSteps(w)
                     /\ ret'[w].err = NoError
                     /\ versionCounter' = versionCounter + 1
                     /\ stamps' = Append(stamps, Sprintf(versionCounter))
          /\ \A w \in Workers :
                 WriteSteps(w) => Stored(heap[gadget[w]].Name)'.ResourceVersion
                                      = Sprintf(versionCounter)]_vars

VersionsDenseWitness ==
    /\ Len(stamps) = 2
    /\ deletes > 0
    /\ \E w \in Workers :
           /\ pc[w] = "Create.Unlock" /\ ret[w].err = NoError
           /\ Stored(heap[gadget[w]].Name).ResourceVersion = Sprintf(2)

\* ---- C36
StoredUIDs == {Stored(n).UID : n \in DOMAIN gadgets}

\* C36: with a generator that never returns a value twice, the UIDs of the
\* entities in the table differ pairwise and each is a value the generator
\* returned. The store of a Create gives its entry a UID drawn from the
\* generator at that step, which no name has carried before, whatever UID
\* the payload had; the store of an Update leaves the entry the UID it had;
\* no step changes the UID of any other entry. So no UID is ever carried by
\* two names.
UIDsUnique ==
    /\ [](/\ StoredUIDs \subseteq Issued
          /\ \A n, m \in DOMAIN gadgets : n # m => Stored(n).UID # Stored(m).UID)
    /\ [][/\ \A n \in DOMAIN gadgets \cap DOMAIN gadgets' :
                 Stored(n)'.UID = Stored(n).UID
          /\ \A n \in DOMAIN gadgets' \ DOMAIN gadgets :
                 /\ Stored(n)'.UID \in Issued' \ Issued
                 /\ \E w \in Workers : pc[w] = "Create.store" /\ StepOf(w)
          /\ \A w \in Workers :
                 pc[w] = "Update.store" /\ StepOf(w)
                     => /\ heap[gadget[w]].Name \in DOMAIN gadgets
                        /\ heap'[ret'[w].obj].UID = Stored(heap[gadget[w]].Name).UID]_vars

UIDsUniqueWitness ==
    /\ Cardinality(StoredUIDs) = 2
    /\ \E w \in Workers :
           /\ pc[w] = "Create.Unlock" /\ ret[w].err = NoError
           /\ input[w].UID = "forged-uid"

\* ---- C37
EntryUnchanged(m) ==
    /\ m \in DOMAIN gadgets <=> m \in DOMAIN gadgets'
    /\ m \in DOMAIN gadgets \cap DOMAIN gadgets' => Stored(m)' = Stored(m)

\* The name a writer is about to store or remove
TargetName(w) == IF top[w] = "Delete" THEN name[w] ELSE heap[gadget[w]].Name

\* C37: no storage operation touches an entry other than the one under its
\* target name. No step of a Get or a List changes the table or the version
\* counter; the store of a Create or an Update and the removal of a Delete
\* leave every entry under another name as it was, in presence and in value;
\* a Delete leaves the version counter as it was; and an entry changes only
\* in such a step of a writer whose target it is.
OnlyTargetEntryChanges ==
    [][/\ \A w \in Workers :
              /\ pc[w] \in ReadSections /\ StepOf(w) => TableUnchanged
              /\ pc[w] \in {"Create.store", "Update.store", "Delete.body"} /\ StepOf(w)
                     => \A m \in (DOMAIN gadgets \cup DOMAIN gadgets') \ {TargetName(w)} :
                            EntryUnchanged(m)
              /\ pc[w] \in {"Delete.body", "Delete.Unlock"} /\ StepOf(w)
                     => versionCounter' = versionCounter
       /\ \A m \in DOMAIN gadgets \cup DOMAIN gadgets' :
              ~EntryUnchanged(m)
                  => \E w \in Workers :
                         /\ pc[w] \in {"Create.store", "Update.store", "Delete.body"}
                         /\ StepOf(w)
                         /\ TargetName(w) = m]_vars

OnlyTargetEntryChangesWitness ==
    \E w \in Workers :
        /\ pc[w] = "Delete.Unlock" /\ ret[w].err = NoError
        /\ DOMAIN gadgets # {}
        /\ versionCounter = MaxVersion

\* ---- C38
LockFree == mu.writer = NoWorker /\ mu.readers = {}

InsideLock(w) == mu.writer = w \/ w \in mu.readers

\* C38: every operation terminates and lets go of the table lock on every
\* path, the error returns included. With workers that are kept running and
\* a fair lock, every request that is in eventually returns and every worker
\* that is inside the lock eventually leaves it; a worker that has returned
\* holds no lock, so the lock is free when nobody has a request in; and
\* whenever some request is in, one of them can take a step (no deadlock).
EveryCallReturns ==
    /\ [](\A w \in Workers : pc[w] = "idle" \/ pc[w] = "REST.return" => ~InsideLock(w))
    /\ []((\A w \in Workers : pc[w] = "idle") => LockFree)
    /\ []((\E w \in Workers : pc[w] # "idle")
              => \E w \in Workers : pc[w] # "idle" /\ ENABLED Proceed(w))
    /\ \A w \in Workers : (pc[w] # "idle") ~> (pc[w] = "idle")
    /\ \A w \in Workers : InsideLock(w) ~> ~InsideLock(w)

EveryCallReturnsWitness ==
    \E w, v \in Workers :
        /\ pc[w] = "RESTDelete.delete"
        /\ pc[v] = "Create.Unlock" /\ IsAlreadyExists(ret[v].err)
        /\ mu.writer = v

====
